---------------------------- MODULE Spec2Model ----------------------------
(***************************************************************************)
(* Preemption and retrieval core of the GPU-aware scheduler                *)
(* (pkg/scheduler/framework/preemption) and the queue ordering policy      *)
(* (pkg/scheduler/framework/plugins/queuesort/priority_sort.go).           *)
(*                                                                         *)
(* The module holds one state machine per component; each component has    *)
(* its own specification (SpecLess, ...) that starts the other             *)
(* components' variables at rest and never changes them.                   *)
(***************************************************************************)
EXTENDS Integers, Sequences, FiniteSets, TLC

VARIABLES
    \* ---- queue ordering policy (PrioritySort.Less) ----
    qa,         \* pInfo1: the first pending pod of the comparison
    qb,         \* pInfo2: the second pending pod of the comparison
    running,    \* pods bound to nodes, in node/pod listing order
    listErr,    \* TRUE iff Nodes().List fails in isMPIJobInNode
    lessOut,    \* what Less(qa, qb) returned: "none" before the call
    \* ---- tie-break scorer (pickOneNodeForPreemption) ----
    pickMap,    \* nodesToVictims: node name -> Victims
    pickOrder,  \* the order in which `range nodesToVictims` yields the keys
    pickOut,    \* the node returned: "none" before the call
    \* ---- candidateList under concurrent add() ----
    clCap,      \* len(cl.items), the size given to newCandidateList
    clList,     \* the list: the add() calls that have reserved an index, and the slots
    addPc,      \* caller -> where its add() stands
    addIdx,     \* caller -> the index its add() reserved
    overwritten, \* an add() has stored into a slot that was not empty
    \* ---- Evaluator.Preempt: dry run, extenders, selection ----
    phase,          \* where Preempt stands
    fault,          \* the first call of Preempt's start to fail: "none" if none does
    potentialNodes, \* the potential nodes V, in order
    outcome,        \* node -> what SelectVictimsOnNode returns for it
    offset,         \* offset of GetOffsetAndNumCandidates
    numCandidates,  \* numCandidates of GetOffsetAndNumCandidates
    parallelism,    \* the parallelism of the handle's Parallelizer
    nextPiece,      \* the next piece Parallelizer.Until hands to a worker
    taskPc,         \* piece -> position of checkNode(piece)
    taskNvc,        \* piece -> nvcSize as the piece read it
    nonViolatingCandidates,  \* candidateList: add() calls and items
    violatingCandidates,     \* candidateList: add() calls and items
    cancelled,      \* the dry run's derived context is cancelled
    outerCancelled, \* the caller's context was cancelled
    cancelledBy,    \* the pieces that called cancel()
    nodeStatuses,   \* node -> status code, for the nodes recorded
    errs,           \* the errors collected under statusesLock
    candidates,     \* the candidates Preempt holds
    victimsMap,     \* callExtenders: node -> Victims
    extLeft,        \* callExtenders: extenders not yet consulted
    extReplaced,    \* an extender's result has replaced the victims map
    extLast,        \* what the extender consulted last did
    extOmitted,     \* the nodes an extender was given and did not return
    bestCandidate,  \* the candidate handed to prepareCandidate
    preemptResult,  \* what Preempt returned
    returnedFrom,   \* the step of Preempt that returned: "" before it returns
    prepPc,         \* prepareCandidate: victim index -> position of preemptPod(index)
    prepCancelled,  \* prepareCandidate's derived context is cancelled
    prepErr,        \* errCh holds an error
    evicted,        \* the pods rejected from the waiting-pod table or deleted
    nominated,      \* the pods that were nominated: node "" once the nomination is cleared
    patchEnabled,   \* preemptPod patches the status of a victim before it deletes it
    rejected,       \* the victims rejected as waiting pods
    patched,        \* the victims whose status patch succeeded
    victimStatus,   \* victim -> the status its patch has given it
    errCh,          \* the error channel: <<>> or the error it holds
    failures,       \* the victims whose eviction failed, in the order of failure
    observed,       \* the samples of the preemption_victims metric
    clearFailed,    \* the pods whose nomination ClearNominatedNodeName failed to clear
    \* ---- Evaluator.Retrieve ----
    rPc,            \* where Retrieve stands
    podNow,         \* the preemptor
    clusterPods,    \* the pods bound to the node, in listing order
    mpiJobs,        \* job name -> the MPIJob record of namespace my-ns
    idleGPUs,       \* idleGPUs, as idleGPUsinNodes computed it
    requestGPUs,    \* requestGPUs of the preemptor
    backfilledPods, \* the pods Retrieve may retract: indices of clusterPods
    retrieveCandidates, \* <<kind, index, gpus, cost>> tuples
    needGPUsTemp,   \* the deficit still to cover
    applied,        \* how many candidates the second loop has acted on
    retracted,      \* the pods handed to RetractPod: indices of clusterPods
    scaledDown,     \* the MPIJobScaling calls made: job and scaleNum
    retrieveOut,    \* what Retrieve returned: "none" before it returns
    lookupErr,      \* which lookups of this call have failed: the pod list, a job
    \* ---- Evaluator.Dynamic, called cycle after cycle ----
    dynPc,          \* where Dynamic stands
    dynOut,         \* what Dynamic returned
    calls,          \* the calls of Dynamic made so far
    baseline,       \* job name -> the worker replicas before any scaling
    scaledOut       \* the job this call of Dynamic scaled out: "" if none

lessVars == <<qa, qb, running, listErr, lessOut>>
pickVars == <<pickMap, pickOrder, pickOut>>
clVars == <<clCap, clList, addPc, addIdx, overwritten>>
dryVars == <<nextPiece, taskPc, taskNvc, nonViolatingCandidates, violatingCandidates,
             cancelled, outerCancelled, cancelledBy, nodeStatuses, errs>>
inputVars == <<fault, potentialNodes, outcome, offset, numCandidates, parallelism>>
extVars == <<victimsMap, extLeft, extReplaced, extLast, extOmitted>>
auditVars == <<patchEnabled, rejected, patched, victimStatus, errCh, failures, observed>>
evictVars == <<prepPc, prepCancelled, prepErr, evicted, nominated, clearFailed, auditVars>>
preemptVars == <<phase, inputVars, dryVars, candidates, extVars, bestCandidate, preemptResult,
                 returnedFrom, evictVars>>

dynVars == <<dynPc, dynOut, calls, baseline, scaledOut>>
retrVars == <<rPc, podNow, clusterPods, mpiJobs, idleGPUs, requestGPUs, backfilledPods,
              retrieveCandidates, needGPUsTemp, applied, retracted, scaledDown, retrieveOut,
              lookupErr, dynVars>>

vars == <<lessVars, pickVars, clVars, preemptVars, retrVars>>

----------------------------------------------------------------------------
(* Bounds of the model. *)

\* priorities of pods range over 0..MaxPrio
MaxPrio == 1
\* timestamps (creation, queue insertion, retraction) range over 1..MaxTime
MaxTime == 2
\* at most MaxRunning pods are bound to nodes in the queue-ordering model
MaxRunning == 2
\* a Victims list holds at most MaxVictims pods
MaxVictims == 2
\* a Victims list violates at most MaxPDB disruption budgets
MaxPDB == 1
\* numCandidates ranges over 1..MaxCand
MaxCand == 2
\* the parallelism of the Parallelizer is at most Workers: Until runs at most
\* that many pieces at a time
Workers == 2
\* at most MaxExt extenders are registered
MaxExt == 2
\* at most MaxPods pods are bound to the node Retrieve lists
MaxPods == 2
\* a backfilled pod requests 1..MaxGPU GPUs
MaxGPU == 2
\* the preemptor requests 1..MaxRequest GPUs
MaxRequest == 2
\* 0..MaxIdle GPUs are idle
MaxIdle == 1

----------------------------------------------------------------------------
(* Timestamps and the retract-check-var annotation. *)

\* the annotation is absent
NoAnn == [kind |-> "absent", t |-> 0]
\* the annotation is present and is not an RFC3339 string
BadAnn == [kind |-> "malformed", t |-> 0]
\* the annotation is the RFC3339 rendering of time t
TimeAnn(t) == [kind |-> "time", t |-> t]
\* the zero time.Time, which time.Parse returns together with an error
ZeroTime == 0

Times == 1..MaxTime
\* values of Annotations["retract-check-var"]
AnnValues == {NoAnn, BadAnn} \cup { TimeAnn(t) : t \in Times }

\* time.Parse(time.RFC3339, s) with the error dropped: the zero time on error
ParseIgnoringErr(s) == IF s.kind = "time" THEN s.t ELSE ZeroTime

----------------------------------------------------------------------------
(* Queue ordering policy: priority_sort.go *)

\* pod names, as strings.Split(name, "-") sees them
PendingNames ==
    { <<"nginx">>, <<"web", "0">>, <<"j1", "launcher">>, <<"j2", "launcher">> }

\* a pending pod: framework.QueuedPodInfo
\*   name: Pod.Name split at "-", prio: PodPriority(Pod),
\*   ts: QueuedPodInfo.Timestamp, ann: Annotations["retract-check-var"]
QueuedPods ==
    [name : PendingNames, prio : 0..MaxPrio, ts : Times, ann : AnnValues]

\* pods bound to nodes: namespace and name
RunningPods ==
    { [ns |-> "my-ns", name |-> <<"j1", "worker", "0">>],
      [ns |-> "my-ns", name |-> <<"nginx">>],
      [ns |-> "default", name |-> <<"j2", "launcher">>] }

\* all sequences over S of length 0..n
RECURSIVE SeqsUpTo(_, _)
SeqsUpTo(S, n) ==
    IF n = 0 THEN { <<>> }
    ELSE LET shorter == SeqsUpTo(S, n - 1)
         IN  shorter \cup { Append(s, x) : s \in { t \in shorter : Len(t) = n - 1 }, x \in S }

\* checkMPIJob(podName): panics when podNameSlice[len-2] is out of range,
\* else returns (MPIJobName, isMPIJob); the job name is kept as its segments
checkMPIJob(podName) ==
    LET n == Len(podName)
    IN  IF podName[n] = "launcher"
        THEN [panic |-> FALSE, job |-> SubSeq(podName, 1, n - 1), is |-> TRUE]
        ELSE IF n < 2
        THEN [panic |-> TRUE, job |-> <<>>, is |-> FALSE]
        ELSE IF podName[n - 1] = "worker"
        THEN [panic |-> FALSE, job |-> SubSeq(podName, 1, n - 2), is |-> TRUE]
        ELSE [panic |-> FALSE, job |-> <<>>, is |-> FALSE]

\* the loop of isMPIJobInNode over the listed pods, from index i on:
\* "true", "false" or "panic"
RECURSIVE ScanRunning(_, _, _)
ScanRunning(pods, i, MPIJobName) ==
    IF i > Len(pods) THEN "false"
    ELSE IF pods[i].ns # "my-ns" THEN ScanRunning(pods, i + 1, MPIJobName)
    ELSE LET r == checkMPIJob(pods[i].name)
         IN  IF r.panic THEN "panic"
             ELSE IF r.is /\ r.job = MPIJobName THEN "true"
             ELSE ScanRunning(pods, i + 1, MPIJobName)

\* isMPIJobInNode(MPIJobName) on a cluster whose bound pods are `pods`
isMPIJobInNode(pods, nodesErr, MPIJobName) ==
    IF nodesErr THEN "false" ELSE ScanRunning(pods, 1, MPIJobName)

\* a Go bool as the model's result value
Bool(b) == IF b THEN "true" ELSE "false"

\* the priority/timestamp comparison of Less: lines 108-128 of the modified
\* plugin
LessByPriority(p1, p2) ==
    IF p1.ann.kind # "absent"
    THEN IF p2.ann.kind # "absent"
         THEN (p1.prio > p2.prio)
              \/ (p1.prio = p2.prio /\ ParseIgnoringErr(p1.ann) < ParseIgnoringErr(p2.ann))
         ELSE (p1.prio > p2.prio)
              \/ (p1.prio = p2.prio /\ ParseIgnoringErr(p1.ann) < p2.ts)
    ELSE IF p2.ann.kind # "absent"
         THEN (p1.prio > p2.prio)
              \/ (p1.prio = p2.prio /\ p1.ts < ParseIgnoringErr(p2.ann))
         ELSE (p1.prio > p2.prio) \/ (p1.prio = p2.prio /\ p1.ts < p2.ts)

\* PrioritySort.Less of the unmodified plugin (second file of priority_sort.go)
LessUnmodified(p1, p2) ==
    IF p1.ann.kind # "absent"
    THEN IF p2.ann.kind # "absent"
         THEN (p1.prio > p2.prio)
              \/ (p1.prio = p2.prio /\ ParseIgnoringErr(p1.ann) < ParseIgnoringErr(p2.ann))
         ELSE (p1.prio > p2.prio)
              \/ (p1.prio = p2.prio /\ ParseIgnoringErr(p1.ann) < p2.ts)
    ELSE IF p2.ann.kind # "absent"
         THEN (p1.prio > p2.prio)
              \/ (p1.prio = p2.prio /\ p1.ts < ParseIgnoringErr(p2.ann))
         ELSE (p1.prio > p2.prio) \/ (p1.prio = p2.prio /\ p1.ts < p2.ts)

\* PrioritySort.Less(pInfo1, pInfo2) of the modified plugin: "true", "false"
\* or "panic".  Go evaluates `isP1MPIJob && isMPIJobInNode(..)` left to right
\* and reaches the second test only when the first is false.
Less(pods, nodesErr, p1, p2) ==
    LET c1 == checkMPIJob(p1.name)
        c2 == checkMPIJob(p2.name)
    IN  IF c1.panic \/ c2.panic THEN "panic"
        ELSE IF c1.is # c2.is
        THEN LET in1 == IF c1.is THEN isMPIJobInNode(pods, nodesErr, c1.job) ELSE "false"
             IN  IF in1 = "panic" THEN "panic"
                 ELSE IF in1 = "true" THEN "true"
                 ELSE LET in2 == IF c2.is THEN isMPIJobInNode(pods, nodesErr, c2.job)
                                 ELSE "false"
                      IN  IF in2 = "panic" THEN "panic"
                          ELSE IF in2 = "true" THEN "false"
                          ELSE Bool(LessByPriority(p1, p2))
        ELSE Bool(LessByPriority(p1, p2))

\* the queue-ordering variables of a specification that does not use them
RestLess ==
    /\ qa = <<>> /\ qb = <<>> /\ running = <<>> /\ listErr = FALSE /\ lessOut = "none"

\* the variables of the candidate list under concurrent add(), of a
\* specification that does not use them
RestCandidateList ==
    /\ clCap = 0 /\ clList = <<>> /\ addPc = <<>> /\ addIdx = <<>> /\ overwritten = FALSE

\* the scorer's variables of a specification that does not use them
RestPick ==
    /\ pickMap = <<>> /\ pickOrder = <<>> /\ pickOut = "none"

\* Preempt's variables of a specification that does not use them
RestPreempt ==
    /\ phase = "rest" /\ potentialNodes = <<>> /\ outcome = <<>> /\ offset = 0
    /\ numCandidates = 0 /\ parallelism = 0 /\ nextPiece = 0 /\ taskPc = <<>> /\ taskNvc = <<>>
    /\ nonViolatingCandidates = <<>> /\ violatingCandidates = <<>>
    /\ cancelled = FALSE /\ outerCancelled = FALSE /\ cancelledBy = {}
    /\ nodeStatuses = <<>> /\ errs = <<>> /\ candidates = <<>> /\ victimsMap = <<>>
    /\ extLeft = 0 /\ extReplaced = FALSE /\ bestCandidate = <<>> /\ preemptResult = <<>>
    /\ extLast = [kind |-> "none", ignorable |-> FALSE, empty |-> FALSE] /\ extOmitted = {}
    /\ fault = "none" /\ returnedFrom = "" /\ prepPc = <<>> /\ prepCancelled = FALSE
    /\ prepErr = FALSE /\ evicted = {} /\ nominated = {} /\ clearFailed = {}
    /\ patchEnabled = FALSE /\ rejected = {} /\ patched = {} /\ errCh = <<>>
    /\ victimStatus = <<>>
    /\ failures = <<>> /\ observed = <<>>

\* Dynamic's variables of a specification that does not call it
RestDynamic ==
    /\ dynPc = "rest" /\ dynOut = <<>> /\ calls = 0 /\ baseline = <<>> /\ scaledOut = ""

\* Retrieve's variables of a specification that does not use them
RestRetrieve ==
    /\ rPc = "rest" /\ podNow = <<>> /\ clusterPods = <<>> /\ mpiJobs = <<>>
    /\ idleGPUs = 0 /\ requestGPUs = 0 /\ backfilledPods = <<>>
    /\ retrieveCandidates = <<>> /\ needGPUsTemp = 0 /\ applied = 0
    /\ retracted = <<>> /\ scaledDown = <<>> /\ retrieveOut = "none"
    /\ lookupErr = [pods |-> FALSE, job |-> FALSE]
    /\ RestDynamic

InitLess ==
    /\ RestRetrieve
    /\ RestPick
    /\ RestCandidateList
    /\ RestPreempt
    /\ qa \in QueuedPods
    /\ qb \in QueuedPods
    /\ running \in SeqsUpTo(RunningPods, MaxRunning)
    /\ listErr \in BOOLEAN
    /\ lessOut = "none"

\* the activeQ heap compares pInfo1 with pInfo2
CallLess ==
    /\ lessOut = "none"
    /\ lessOut' = Less(running, listErr, qa, qb)
    /\ UNCHANGED <<qa, qb, running, listErr, pickVars, clVars, preemptVars, retrVars>>

NextLess == CallLess

SpecLess == InitLess /\ [][NextLess]_vars

----------------------------------------------------------------------------
(* Queue ordering policy: the claims *)

\* Less on the cluster of the current state
L(x, y) == Less(running, listErr, x, y)

\* the pod is an elastic-job pod and a pod of its job is bound to a node
ElasticResident(p) ==
    LET c == checkMPIJob(p.name)
    IN  /\ ~c.panic
        /\ c.is
        /\ \E i \in DOMAIN running :
              LET r == checkMPIJob(running[i].name)
              IN  running[i].ns = "my-ns" /\ ~r.panic /\ r.is /\ r.job = c.job

\* effectiveTimestamp of the ordering: the annotation if present, else the
\* queue-insertion timestamp
QueueTimestamp(p) == IF p.ann.kind # "absent" THEN ParseIgnoringErr(p.ann) ELSE p.ts

\* the priority/timestamp order as the specification words it
PriorityThenTimestamp(a, b) ==
    (a.prio > b.prio) \/ (a.prio = b.prio /\ QueueTimestamp(a) < QueueTimestamp(b))

Incomparable(x, y) == L(x, y) = "false" /\ L(y, x) = "false"

\* C7: Less is a strict weak ordering: never both Less(a,b) and Less(b,a);
\* Less(a,b) and Less(b,c) imply Less(a,c); incomparability is transitive.
\* Stated for the comparisons that returned (no panic) on a cluster whose
\* listing succeeds.
C7_StrictWeakOrder ==
    (lessOut \in {"true", "false"} /\ ~listErr) =>
        \A c \in QueuedPods :
            (/\ L(qb, qa) # "panic"
             /\ L(qb, c) # "panic" /\ L(c, qb) # "panic"
             /\ L(qa, c) # "panic" /\ L(c, qa) # "panic")
            => /\ ~(lessOut = "true" /\ L(qb, qa) = "true")
               /\ (lessOut = "true" /\ L(qb, c) = "true") => L(qa, c) = "true"
               /\ (Incomparable(qa, qb) /\ Incomparable(qb, c)) => Incomparable(qa, c)

\* C7, first part alone: Less is asymmetric (holds of the code)
C7_Asymmetric ==
    lessOut = "true" => L(qb, qa) # "true"

\* C8: if exactly one of a, b is an elastic-job pod whose job has a pod bound
\* to a node, Less orders that pod earlier, whatever the priorities and
\* timestamps.  Stated for the comparisons that returned (no panic) on a
\* cluster whose listing succeeds.
C8_ResidentFirst ==
    (lessOut \in {"true", "false"} /\ ~listErr) =>
        /\ (ElasticResident(qa) /\ ~ElasticResident(qb)) => lessOut = "true"
        /\ (ElasticResident(qb) /\ ~ElasticResident(qa)) => lessOut = "false"

\* what the code does instead of C8: the bias applies when exactly one of the
\* two pods is an elastic-job pod, and that pod's job is resident
C8_AsCoded ==
    (lessOut \in {"true", "false"} /\ ~listErr) =>
        LET ea == checkMPIJob(qa.name).is
            eb == checkMPIJob(qb.name).is
        IN  /\ (ea /\ ~eb /\ ElasticResident(qa)) => lessOut = "true"
            /\ (eb /\ ~ea /\ ElasticResident(qb)) => lessOut = "false"
            /\ (ea = eb) => lessOut = Bool(PriorityThenTimestamp(qa, qb))

\* C9: whenever the elastic-residency rule does not decide the comparison,
\* Less(a,b) is the priority/effective-timestamp order, and equals the
\* unmodified plugin's Less(a,b).
C9_FallsBackToPriority ==
    (lessOut # "none" /\ ~ElasticResident(qa) /\ ~ElasticResident(qb)) =>
        /\ lessOut = Bool(PriorityThenTimestamp(qa, qb))
        /\ lessOut = Bool(LessUnmodified(qa, qb))

\* C9 on the comparisons that return: holds of the code
C9_WhenNoPanic ==
    (lessOut \in {"true", "false"} /\ ~ElasticResident(qa) /\ ~ElasticResident(qb)) =>
        /\ lessOut = Bool(PriorityThenTimestamp(qa, qb))
        /\ lessOut = Bool(LessUnmodified(qa, qb))

----------------------------------------------------------------------------
(* Tie-break scorer: pickOneNodeForPreemption *)

\* math.MinInt64, the initial maxScore.  TLC's integers are 32 bits wide, so
\* the model uses -(2^30): like math.MinInt64 in the code it is below every
\* score a node of the model can have.
MinInt64 == -(2^30)
\* int64(math.MaxInt32 + 1), added to every priority of the sum.  The model
\* uses 2^20: like 2^31 for int32 priorities it exceeds every priority of the
\* model, and no sum of the model overflows, as none overflows an int64.
PriorityShift == 2^20

\* node names of the scorer's input map
PickNodes == {"n1", "n2", "n3"}

\* a victim pod: its priority and its start time
VictimPods == [prio : 0..MaxPrio, start : Times]

\* the pods of s are ordered by decreasing priority
ByDecreasingPriority(s) ==
    \A i \in 1..(Len(s) - 1) : s[i].prio >= s[i + 1].prio

\* extenderv1.Victims values: Pods ordered by decreasing priority and not
\* empty, NumPDBViolations in 0..MaxPDB
VictimsValues ==
    { [pods |-> ps, pdb |-> k] :
        ps \in { t \in SeqsUpTo(VictimPods, MaxVictims) : Len(t) >= 1 /\ ByDecreasingPriority(t) },
        k \in 0..MaxPDB }

\* all orders in which the elements of S can be listed
Perms(S) ==
    { o \in [1..Cardinality(S) -> S] : \A i, j \in 1..Cardinality(S) : o[i] = o[j] => i = j }

RECURSIVE SumShifted(_, _)
\* the loop of minSumPrioritiesScoreFunc from pod i on
SumShifted(pods, i) ==
    IF i > Len(pods) THEN 0 ELSE pods[i].prio + PriorityShift + SumShifted(pods, i + 1)

\* util.GetEarliestPodStartTime: the earliest start time among the
\* highest-priority pods of the list; 0 stands for nil (no pods)
GetEarliestPodStartTime(victims) ==
    IF Len(victims.pods) = 0 THEN 0
    ELSE LET top == { i \in DOMAIN victims.pods :
                        \A j \in DOMAIN victims.pods : victims.pods[j].prio <= victims.pods[i].prio }
             i0 == CHOOSE i \in top : \A j \in top : victims.pods[i].start <= victims.pods[j].start
         IN  victims.pods[i0].start

\* ScoreFunc with the sign of minHighestPriorityScoreFunc lost
ScoreFuncHighestPriorityFirst(k, victims) ==
    CASE k = 1 -> -victims.pdb
      [] k = 2 -> victims.pods[1].prio
      [] k = 3 -> -SumShifted(victims.pods, 1)
      [] k = 4 -> -Len(victims.pods)
      [] k = 5 -> IF GetEarliestPodStartTime(victims) = 0 THEN MinInt64
                  ELSE GetEarliestPodStartTime(victims)

\* the k-th default score function applied to a node's victims
ScoreFunc(k, victims) ==
    CASE k = 1 -> -victims.pdb
      [] k = 2 -> -(victims.pods[1].prio)
      [] k = 3 -> -SumShifted(victims.pods, 1)
      [] k = 4 -> -Len(victims.pods)
      [] k = 5 -> IF GetEarliestPodStartTime(victims) = 0 THEN MinInt64
                  ELSE GetEarliestPodStartTime(victims)

\* the number of default score functions
NumScoreFuncs == 5

RECURSIVE SelectMaxKeepsLast(_, _, _, _, _, _)
\* an inner loop that starts selectedNodes afresh at every node that equals
\* the maximum so far
SelectMaxKeepsLast(m, k, cands, i, maxScore, selected) ==
    IF i > Len(cands) THEN selected
    ELSE LET score == ScoreFunc(k, m[cands[i]])
             max1 == IF score >= maxScore THEN score ELSE maxScore
             sel1 == IF score >= maxScore THEN <<>> ELSE selected
             sel2 == IF score = max1 THEN Append(sel1, cands[i]) ELSE sel1
         IN  SelectMaxKeepsLast(m, k, cands, i + 1, max1, sel2)

RECURSIVE SelectMax(_, _, _, _, _, _)
\* the inner loop of pickOneNodeForPreemption over allCandidates from index i
\* on, with maxScore and selectedNodes as they stand: the final selectedNodes
SelectMax(m, k, cands, i, maxScore, selected) ==
    IF i > Len(cands) THEN selected
    ELSE LET score == ScoreFunc(k, m[cands[i]])
             max1 == IF score > maxScore THEN score ELSE maxScore
             sel1 == IF score > maxScore THEN <<>> ELSE selected
             sel2 == IF score = max1 THEN Append(sel1, cands[i]) ELSE sel1
         IN  SelectMax(m, k, cands, i + 1, max1, sel2)

RECURSIVE PickLoop(_, _, _)
\* the outer loop of pickOneNodeForPreemption from score function k on
PickLoop(m, k, allCandidates) ==
    IF k > NumScoreFuncs THEN allCandidates[1]
    ELSE LET selectedNodes == SelectMax(m, k, allCandidates, 1, MinInt64, <<>>)
         IN  IF Len(selectedNodes) = 1 THEN selectedNodes[1]
             ELSE PickLoop(m, k + 1, selectedNodes)

\* pickOneNodeForPreemption(nodesToVictims, nil) when `range nodesToVictims`
\* yields the keys in the order `order`
pickOneNodeForPreemption(m, order) ==
    IF DOMAIN m = {} THEN "" ELSE PickLoop(m, 1, order)

\* the maps the scorer is called on
PickMaps == UNION { [D -> VictimsValues] : D \in SUBSET PickNodes }

InitPick ==
    /\ RestCandidateList
    /\ RestRetrieve
    /\ RestLess
    /\ RestPreempt
    /\ pickMap \in PickMaps
    /\ pickOrder \in Perms(DOMAIN pickMap)
    /\ pickOut = "none"

\* SelectCandidate calls pickOneNodeForPreemption
CallPick ==
    /\ pickOut = "none"
    /\ pickOut' = pickOneNodeForPreemption(pickMap, pickOrder)
    /\ UNCHANGED <<pickMap, pickOrder, clVars, lessVars, preemptVars, retrVars>>

NextPick == CallPick

SpecPick == InitPick /\ [][NextPick]_vars

----------------------------------------------------------------------------
(* Tie-break scorer: the claims *)

\* the layered criteria of a node's victims, each a score to maximise:
\* fewest PDB violations, lowest highest victim priority, smallest sum of
\* shifted priorities, fewest victims, latest earliest start time
ScoreTuple(v) ==
    << -v.pdb,
       -(v.pods[1].prio),
       -SumShifted(v.pods, 1),
       -Len(v.pods),
       GetEarliestPodStartTime(v) >>

\* t is lexicographically below u
LexBelow(t, u) ==
    \E k \in 1..Len(t) : t[k] < u[k] /\ \A j \in 1..(k - 1) : t[j] = u[j]

\* the nodes of m whose score tuple is lexicographically maximal
TiedBest(m) ==
    LET tuple == [n \in DOMAIN m |-> ScoreTuple(m[n])]
    IN  { n \in DOMAIN m : \A n2 \in DOMAIN m : ~LexBelow(tuple[n], tuple[n2]) }

\* the node names in sorted order
SortedPickNodes == <<"n1", "n2", "n3">>

\* the first node of the order o that is in S
FirstIn(o, S) ==
    o[CHOOSE i \in DOMAIN o : o[i] \in S /\ \A j \in 1..(i - 1) : o[j] \notin S]

\* C4: for a fixed map pickOneNodeForPreemption returns the same node on
\* every run, whatever the map iteration order, and on a tie of every score
\* function the first tied node in sorted name order.
C4_SameNodeOnEveryRun ==
    pickOut # "none" =>
        /\ \A o \in Perms(DOMAIN pickMap) : pickOneNodeForPreemption(pickMap, o) = pickOut
        /\ DOMAIN pickMap # {} => pickOut = FirstIn(SortedPickNodes, TiedBest(pickMap))

\* C4 as amended: the node returned has a lexicographically maximal score
\* tuple and is the first such node in map iteration order; the result is the
\* same for every iteration order when no two nodes tie on every score
\* function.
C4_SameNodeUnlessTied ==
    pickOut # "none" =>
        IF DOMAIN pickMap = {} THEN pickOut = ""
        ELSE LET best == TiedBest(pickMap)
             IN  /\ pickOut \in best
                 /\ pickOut = FirstIn(pickOrder, best)
                 /\ Cardinality(best) = 1 =>
                        \A o \in Perms(DOMAIN pickMap) :
                            pickOneNodeForPreemption(pickMap, o) = pickOut

\* two nodes tie on every score function and the node returned is not the
\* first of them in sorted name order
C4_TieWitness ==
    /\ pickOut \notin {"none", ""}
    /\ Cardinality(TiedBest(pickMap)) >= 2
    /\ pickOut # FirstIn(SortedPickNodes, TiedBest(pickMap))

RECURSIVE SelectedAfter(_, _, _)
\* the nodes still tied after the first k score functions, as the loops of
\* pickOneNodeForPreemption would select them from the order o
SelectedAfter(m, k, o) ==
    IF k = 0 THEN o
    ELSE SelectMax(m, k, SelectedAfter(m, k - 1, o), 1, MinInt64, <<>>)

\* the nodes of m whose score tuple is lexicographically maximal on its first
\* k components
TiedBestUpTo(m, k) ==
    LET tuple == [n \in DOMAIN m |-> SubSeq(ScoreTuple(m[n]), 1, k)]
    IN  { n \in DOMAIN m : \A n2 \in DOMAIN m : ~LexBelow(tuple[n], tuple[n2]) }

\* C24: with the default score functions pickOneNodeForPreemption returns ""
\* for an empty map and otherwise a node of the map whose score tuple
\* (-numPDBViolations, -priority of the first victim, -sum of the shifted
\* priorities, -number of victims, earliest start time of the
\* highest-priority victims) is lexicographically maximal; after every
\* criterion the tied nodes are those maximal so far, never none
C24_LexicographicMaximum ==
    pickOut # "none" =>
        IF DOMAIN pickMap = {} THEN pickOut = ""
        ELSE /\ pickOut \in DOMAIN pickMap
             /\ \A n \in DOMAIN pickMap :
                    ~LexBelow(ScoreTuple(pickMap[pickOut]), ScoreTuple(pickMap[n]))
             /\ \A k \in 1..NumScoreFuncs :
                    LET sel == SelectedAfter(pickMap, k, pickOrder)
                    IN  /\ Len(sel) >= 1
                        /\ { sel[i] : i \in DOMAIN sel } = TiedBestUpTo(pickMap, k)

\* of three nodes two still tie after the fourth criterion and the start
\* time decides; the node returned is not the first of the iteration order
C24_DecidedByStartTime ==
    /\ pickOut \notin {"none", ""}
    /\ Cardinality(DOMAIN pickMap) = 3
    /\ Len(SelectedAfter(pickMap, 4, pickOrder)) = 2
    /\ Len(SelectedAfter(pickMap, 5, pickOrder)) = 1
    /\ pickOut # pickOrder[1]

----------------------------------------------------------------------------
(* Evaluator.Preempt: the cluster and the plugin's hooks *)

\* the priority of the preemptor
PreemptorPriority == MaxPrio

\* the nodes of the cluster
AllNodes == <<"n1", "n2", "n3">>

\* the pods bound to node n: one of the preemptor's priority and two of a
\* lower priority
NodePods(n) ==
    [ hi  |-> [id |-> <<n, "hi">>,  prio |-> PreemptorPriority, start |-> 1],
      lo1 |-> [id |-> <<n, "lo1">>, prio |-> 0, start |-> MaxTime],
      lo2 |-> [id |-> <<n, "lo2">>, prio |-> 0, start |-> 1] ]

\* what SelectVictimsOnNode may return for node n: a status that is not
\* Success, or Success with victims of a priority below the preemptor's,
\* ordered by decreasing priority, some of them violating a disruption budget
SelectVictimsOutcomes(n) ==
    { [status |-> st, pods |-> <<>>, pdb |-> 0] : st \in {"Unschedulable", "Error", "Success"} }
    \cup { [status |-> "Success", pods |-> ps, pdb |-> k] :
             ps \in { <<NodePods(n).lo1>>, <<NodePods(n).lo1, NodePods(n).lo2>> },
             k \in 0..MaxPDB }

\* Interface.CandidatesToVictimsMap: node name -> victims of the candidate of
\* that name (the last one, should two candidates share a name)
CandidatesToVictimsMap(cs) ==
    [ n \in { cs[i].name : i \in DOMAIN cs } |->
        cs[CHOOSE i \in DOMAIN cs : cs[i].name = n /\ \A j \in DOMAIN cs : cs[j].name = n => j <= i].victims ]

----------------------------------------------------------------------------
(* candidateList *)

\* newCandidateList(size): no add() yet (idx = -1), no item installed
newCandidateList == [adds |-> 0, items |-> <<>>]

\* an add() that installs the candidate whatever index it reserved
addBeyondCapacity(cl, c, cap) ==
    [adds |-> cl.adds + 1, items |-> Append(cl.items, c)]

\* candidateList.add(c) on a list of capacity cap: the index reserved is the
\* number of earlier add() calls; the candidate is installed when it is below
\* the capacity
add(cl, c, cap) ==
    [adds |-> cl.adds + 1,
     items |-> IF cl.adds < cap THEN Append(cl.items, c) ELSE cl.items]

\* a size() that does not clamp
sizeOfIdx(cl, cap) == cl.adds

\* candidateList.size(): idx + 1, clamped to the capacity
size(cl, cap) == IF cl.adds >= cap THEN cap ELSE cl.adds

\* candidateList.get(): items[:size()]
get(cl, cap) == SubSeq(cl.items, 1, size(cl, cap))

----------------------------------------------------------------------------
(* candidateList under concurrent add(): the increment of idx and the store
   into the slot are two steps of a caller *)

\* the capacities of the lists, and the callers of add()
MaxCap == 3
MaxAdders == 4

\* the callers of add(); caller a adds the candidate a
Adders == DOMAIN addPc

\* an empty slot of items: the nil Candidate
NilCandidate == 0

InitCandidateList ==
    /\ RestLess
    /\ RestPreempt
    /\ RestRetrieve
    /\ pickMap = <<>> /\ pickOrder = <<>> /\ pickOut = "none"
    /\ clCap \in 1..MaxCap
    /\ clList = [adds |-> 0, items |-> [i \in 1..clCap |-> NilCandidate]]
    /\ \E k \in 1..MaxAdders : addPc = [a \in 1..k |-> "idle"]
    /\ addIdx = [a \in DOMAIN addPc |-> -1]
    /\ overwritten = FALSE

\* add(c) of caller a: idx := atomic.AddInt32(&cl.idx, 1)
AddReserve(a) ==
    /\ addPc[a] = "idle"
    /\ clList' = [clList EXCEPT !.adds = @ + 1]
    /\ addIdx' = [addIdx EXCEPT ![a] = clList.adds]
    /\ addPc' = [addPc EXCEPT ![a] = "reserved"]
    /\ UNCHANGED <<clCap, overwritten, lessVars, pickVars, preemptVars, retrVars>>

\* add(c) of caller a: if idx < int32(len(cl.items)) { cl.items[idx] = c }
AddStore(a) ==
    /\ addPc[a] = "reserved"
    /\ IF addIdx[a] < clCap
       THEN /\ clList' = [clList EXCEPT !.items[addIdx[a] + 1] = a]
            /\ overwritten' = (overwritten \/ clList.items[addIdx[a] + 1] # NilCandidate)
       ELSE UNCHANGED <<clList, overwritten>>
    /\ addPc' = [addPc EXCEPT ![a] = "done"]
    /\ UNCHANGED <<clCap, addIdx, lessVars, pickVars, preemptVars, retrVars>>

NextCandidateList ==
    \/ \E a \in Adders : AddReserve(a)
    \/ \E a \in Adders : AddStore(a)

SpecCandidateList == InitCandidateList /\ [][NextCandidateList]_vars

\* the callers whose add() has reserved an index
Reserved == { a \in Adders : addPc[a] # "idle" }

\* the smaller of two numbers
Min(x, y) == IF x <= y THEN x ELSE y

\* C20: for a candidateList of capacity N under any interleaving of k
\* concurrent add() calls, each add reserves a distinct index, no installed
\* candidate is overwritten, the adds that reserve an index of N or more are
\* discarded, size() is always in 0..N, and once every add() has completed
\* get() returns exactly min(k, N) entries, each a distinct added candidate
\* and none an empty slot
C20_ConcurrentAdds ==
    /\ \A a, b \in Reserved : a # b => addIdx[a] # addIdx[b]
    /\ ~overwritten
    /\ \A a \in Adders :
          (addPc[a] = "done" /\ addIdx[a] >= clCap) =>
              \A i \in DOMAIN clList.items : clList.items[i] # a
    /\ \A a \in Adders :
          (addPc[a] = "done" /\ addIdx[a] < clCap) => clList.items[addIdx[a] + 1] = a
    /\ size(clList, clCap) \in 0..clCap
    /\ (\A a \in Adders : addPc[a] = "done") =>
          LET got == get(clList, clCap)
          IN  /\ Len(got) = Min(Cardinality(Adders), clCap)
              /\ \A i \in DOMAIN got : got[i] \in Adders
              /\ \A i, j \in DOMAIN got : got[i] = got[j] => i = j

\* more adds than slots have completed, out of index order, on a list of
\* several slots
C20_MoreAddsThanSlots ==
    /\ \A a \in Adders : addPc[a] = "done"
    /\ clCap > 1
    /\ Cardinality(Adders) > clCap
    /\ \E a, b \in Adders : a < b /\ addIdx[b] < addIdx[a]

----------------------------------------------------------------------------
(* Evaluator.DryRunPreemption *)

Pieces == 0..(Len(potentialNodes) - 1)

\* an index that leaves the piece out
NodeIndexOfOffset(i) == (offset % Len(potentialNodes)) + 1

\* potentialNodes[(int(offset)+i)%len(potentialNodes)], as a 1-based index
NodeIndex(i) == ((offset + i) % Len(potentialNodes)) + 1

\* the node checkNode(i) evaluates
NodeOf(i) == potentialNodes[NodeIndex(i)]

\* the pieces a worker is executing
InProgress == { i \in Pieces : taskPc[i] \in {"started", "added", "readNvc"} }

\* what the loop of callExtenders did with an extender: kind is "skipped",
\* "error" (ProcessPreemption failed) or "answer" (it returned a map, with an
\* entry without victims when empty); "none" before any extender
ExtenderDid(kind, ignorable, empty) ==
    [kind |-> kind, ignorable |-> ignorable, empty |-> empty]

NoExtender == ExtenderDid("none", FALSE, FALSE)

\* the calls of Preempt's start that may fail: PodLister.Get, the eligibility
\* test, NodeInfos().List (an error, or no node at all), getPodDisruptionBudgets
Faults == {"none", "podGet", "notEligible", "nodeList", "noNodes", "budgets"}

InitPreempt ==
    /\ RestRetrieve
    /\ RestLess
    /\ RestPick
    /\ RestCandidateList
    /\ phase = "preempt"
    /\ \E n \in 0..Len(AllNodes) : potentialNodes = SubSeq(AllNodes, 1, n)
    /\ fault \in Faults
    /\ fault = "noNodes" => Len(potentialNodes) = 0
    /\ fault = "budgets" => Len(potentialNodes) # 0
    /\ outcome \in [ { potentialNodes[i] : i \in DOMAIN potentialNodes } ->
                       UNION { SelectVictimsOutcomes(n) : n \in { AllNodes[i] : i \in DOMAIN AllNodes } } ]
    /\ \A n \in DOMAIN outcome : outcome[n] \in SelectVictimsOutcomes(n)
    /\ offset \in IF Len(potentialNodes) = 0 THEN {0} ELSE 0..(Len(potentialNodes) - 1)
    /\ numCandidates \in IF Len(potentialNodes) = 0 THEN {0} ELSE 1..MaxCand
    /\ parallelism \in IF Len(potentialNodes) = 0 THEN {1} ELSE 1..Workers
    /\ nextPiece = 0
    /\ taskPc = [i \in Pieces |-> "idle"]
    /\ taskNvc = [i \in Pieces |-> 0]
    /\ nonViolatingCandidates = newCandidateList
    /\ violatingCandidates = newCandidateList
    /\ cancelled = FALSE
    /\ outerCancelled = FALSE
    /\ cancelledBy = {}
    /\ nodeStatuses = <<>>
    /\ errs = <<>>
    /\ candidates = <<>>
    /\ victimsMap = <<>>
    /\ extLeft = 0
    /\ extReplaced = FALSE
    /\ extLast = NoExtender
    /\ extOmitted = {}
    /\ bestCandidate = <<>>
    /\ preemptResult = <<>>
    /\ returnedFrom = ""
    /\ prepPc = <<>>
    /\ prepCancelled = FALSE
    /\ prepErr = FALSE
    /\ evicted = {}
    /\ nominated = {}
    /\ clearFailed = {}
    /\ patchEnabled = FALSE
    /\ rejected = {}
    /\ patched = {}
    /\ victimStatus = <<>>
    /\ errCh = <<>>
    /\ failures = <<>>
    /\ observed = <<>>

\* a worker of Parallelizer.Until takes the next piece, unless the context is
\* cancelled
StartPiece ==
    /\ phase = "dryrun"
    /\ ~cancelled
    /\ nextPiece < Len(potentialNodes)
    /\ Cardinality(InProgress) < parallelism
    /\ taskPc' = [taskPc EXCEPT ![nextPiece] = "started"]
    /\ nextPiece' = nextPiece + 1
    /\ UNCHANGED <<phase, inputVars, taskNvc, nonViolatingCandidates, violatingCandidates,
                   cancelled, outerCancelled, cancelledBy, nodeStatuses, errs, candidates,
                   extVars, bestCandidate, preemptResult, returnedFrom, evictVars, lessVars, pickVars, clVars, retrVars>>

\* a candidate whose victims are all the pods of the node
NewCandidateOfEveryPod(name, o) ==
    [name |-> name,
     victims |-> [pods |-> <<NodePods(name).hi, NodePods(name).lo1, NodePods(name).lo2>>,
                  pdb |-> o.pdb]]

\* the candidate checkNode builds from what SelectVictimsOnNode returned
NewCandidate(name, o) ==
    [name |-> name, victims |-> [pods |-> o.pods, pdb |-> o.pdb]]

\* checkNode(i) up to add(): SelectVictimsOnNode succeeded with victims
AddCandidate(i) ==
    LET o == outcome[NodeOf(i)]
        c == NewCandidate(NodeOf(i), o)
    IN  /\ phase = "dryrun"
        /\ taskPc[i] = "started"
        /\ o.status = "Success" /\ Len(o.pods) # 0
        /\ IF o.pdb = 0
           THEN /\ nonViolatingCandidates' = add(nonViolatingCandidates, c, numCandidates)
                /\ UNCHANGED violatingCandidates
           ELSE /\ violatingCandidates' = add(violatingCandidates, c, numCandidates)
                /\ UNCHANGED nonViolatingCandidates
        /\ taskPc' = [taskPc EXCEPT ![i] = "added"]
        /\ UNCHANGED <<phase, inputVars, nextPiece, taskNvc, cancelled, outerCancelled,
                       cancelledBy, nodeStatuses, errs, candidates, extVars, bestCandidate,
                       preemptResult, returnedFrom, evictVars, lessVars, pickVars, clVars, retrVars>>

\* checkNode(i): nvcSize := nonViolatingCandidates.size()
ReadNvcSize(i) ==
    /\ phase = "dryrun"
    /\ taskPc[i] = "added"
    /\ taskNvc' = [taskNvc EXCEPT ![i] = size(nonViolatingCandidates, numCandidates)]
    /\ taskPc' = [taskPc EXCEPT ![i] = "readNvc"]
    /\ UNCHANGED <<phase, inputVars, nextPiece, nonViolatingCandidates, violatingCandidates,
                   cancelled, outerCancelled, cancelledBy, nodeStatuses, errs, candidates,
                   extVars, bestCandidate, preemptResult, returnedFrom, evictVars, lessVars, pickVars, clVars, retrVars>>

\* a test that lets the candidates exceed the cap before it cancels
CapReachedStrictly(nvcSize, vcSize, cap) == nvcSize > 0 /\ nvcSize + vcSize > cap

\* a test that is content with violating candidates
CapReachedInAnyClass(nvcSize, vcSize, cap) == nvcSize + vcSize >= cap

\* the test of checkNode that decides on cancel()
CapReached(nvcSize, vcSize, cap) == nvcSize > 0 /\ nvcSize + vcSize >= cap

\* checkNode(i): vcSize := violatingCandidates.size(), then cancel() when the
\* cap is reached with a non-violating candidate
ReadVcSizeAndCancel(i) ==
    /\ phase = "dryrun"
    /\ taskPc[i] = "readNvc"
    /\ IF CapReached(taskNvc[i], size(violatingCandidates, numCandidates), numCandidates)
       THEN cancelled' = TRUE /\ cancelledBy' = cancelledBy \cup {i}
       ELSE UNCHANGED <<cancelled, cancelledBy>>
    /\ taskPc' = [taskPc EXCEPT ![i] = "done"]
    /\ UNCHANGED <<phase, inputVars, nextPiece, taskNvc, nonViolatingCandidates,
                   violatingCandidates, outerCancelled, nodeStatuses, errs, candidates,
                   extVars, bestCandidate, preemptResult, returnedFrom, evictVars, lessVars, pickVars, clVars, retrVars>>

\* the status recorded as SelectVictimsOnNode returned it
RecordedStatusAsReturned(o) == o.status

\* the status checkNode records for a node that gives no candidate: Success
\* without victims becomes an Error status
RecordedStatus(o) ==
    IF o.status = "Success" /\ Len(o.pods) = 0 THEN "Error" ELSE o.status

\* a write of the status into a copy of the map read before any other
\* task's write: the writes of the other tasks are lost
SetStatusOnStaleMap(statuses, name, st) == (name :> st)

\* nodeStatuses[name] = status, under statusesLock
SetStatus(statuses, name, st) ==
    [n \in DOMAIN statuses \cup {name} |-> IF n = name THEN st ELSE statuses[n]]

\* checkNode(i) when the node gives no candidate: the status is recorded, and
\* the error collected, under statusesLock
RecordStatus(i) ==
    LET o == outcome[NodeOf(i)]
        st == RecordedStatus(o)
    IN  /\ phase = "dryrun"
        /\ taskPc[i] = "started"
        /\ ~(o.status = "Success" /\ Len(o.pods) # 0)
        /\ errs' = IF st = "Error" THEN Append(errs, NodeOf(i)) ELSE errs
        /\ nodeStatuses' = SetStatus(nodeStatuses, NodeOf(i), st)
        /\ taskPc' = [taskPc EXCEPT ![i] = "done"]
        /\ UNCHANGED <<phase, inputVars, nextPiece, taskNvc, nonViolatingCandidates,
                       violatingCandidates, cancelled, outerCancelled, cancelledBy,
                       candidates, extVars, bestCandidate, preemptResult, returnedFrom, evictVars, lessVars, pickVars, clVars, retrVars>>

\* the caller's context is cancelled, and with it the dry run's
OuterCancel ==
    /\ phase = "dryrun"
    /\ ~outerCancelled
    /\ outerCancelled' = TRUE
    /\ cancelled' = TRUE
    /\ UNCHANGED <<phase, inputVars, nextPiece, taskPc, taskNvc, nonViolatingCandidates,
                   violatingCandidates, cancelledBy, nodeStatuses, errs, candidates,
                   extVars, bestCandidate, preemptResult, returnedFrom, evictVars, lessVars, pickVars, clVars, retrVars>>

\* a return that puts the violating candidates first
DryRunReturnsViolatingFirst ==
    /\ phase = "dryrun"
    /\ InProgress = {}
    /\ cancelled \/ nextPiece = Len(potentialNodes)
    /\ candidates' = get(violatingCandidates, numCandidates)
                     \o get(nonViolatingCandidates, numCandidates)
    /\ phase' = "found"
    /\ UNCHANGED <<inputVars, dryVars, extVars, bestCandidate, preemptResult, returnedFrom, evictVars,
                   lessVars, pickVars, clVars, retrVars>>

\* Parallelizer.Until returns and DryRunPreemption returns
\* append(nonViolatingCandidates.get(), violatingCandidates.get()...)
DryRunReturns ==
    /\ phase = "dryrun"
    /\ InProgress = {}
    /\ cancelled \/ nextPiece = Len(potentialNodes)
    /\ candidates' = get(nonViolatingCandidates, numCandidates)
                     \o get(violatingCandidates, numCandidates)
    /\ phase' = "found"
    /\ UNCHANGED <<inputVars, dryVars, extVars, bestCandidate, preemptResult, returnedFrom, evictVars,
                   lessVars, pickVars, clVars, retrVars>>

----------------------------------------------------------------------------
(* Evaluator.Preempt after findCandidates; callExtenders; SelectCandidate *)

\* a PostFilterResult and Status pair returned by Preempt
Returned(result, node, status) == [result |-> result, node |-> node, status |-> status]

prepVarsUnchanged == UNCHANGED <<inputVars, dryVars, lessVars, pickVars, clVars, retrVars>>

\* the locals of the dry run are dead
DryRunLocalsForgotten ==
    /\ outcome' = <<>> /\ offset' = 0 /\ numCandidates' = 0 /\ parallelism' = 0
    /\ nextPiece' = 0
    /\ taskPc' = <<>> /\ taskNvc' = <<>>
    /\ nonViolatingCandidates' = <<>> /\ violatingCandidates' = <<>>
    /\ cancelled' = FALSE /\ outerCancelled' = FALSE /\ cancelledBy' = {}

\* findCandidates has returned: the inputs and locals of the dry run are dead
DryRunForgotten ==
    /\ DryRunLocalsForgotten
    /\ nodeStatuses' = <<>> /\ errs' = <<>>
    /\ UNCHANGED <<fault, potentialNodes, lessVars, pickVars, clVars, retrVars>>

\* Preempt: step 0, PodLister.Get fails
PreemptFetchFails ==
    /\ phase = "preempt"
    /\ fault = "podGet"
    /\ preemptResult' = Returned("nil", "", "Error")
    /\ returnedFrom' = "fetch"
    /\ phase' = "returned"
    /\ UNCHANGED <<candidates, extVars, bestCandidate, evictVars>>
    /\ DryRunForgotten

\* Preempt: step 1, the preemptor is not eligible to preempt other pods
PreemptNotEligible ==
    /\ phase = "preempt"
    /\ fault = "notEligible"
    /\ preemptResult' = Returned("nil", "", "Unschedulable")
    /\ returnedFrom' = "eligible"
    /\ phase' = "returned"
    /\ UNCHANGED <<candidates, extVars, bestCandidate, evictVars>>
    /\ DryRunForgotten

\* a result that leaves the nomination of the preemptor as it is
NoCandidatesResultNil(failed) ==
    Returned("nil", "", IF failed THEN "Error" ELSE "Unschedulable")

\* Preempt: what is returned when findCandidates gives no candidate, with an
\* error (failed) or without one
NoCandidatesResult(failed) ==
    IF failed THEN Returned("nil", "", "Error")
    ELSE Returned("nominated", "", "Unschedulable")

\* findCandidates returns an error before the dry run: NodeInfos().List fails
\* or lists no node, or getPodDisruptionBudgets fails
FindCandidatesFails ==
    /\ phase = "preempt"
    /\ fault \in {"nodeList", "noNodes", "budgets"}
    /\ preemptResult' = NoCandidatesResult(TRUE)
    /\ returnedFrom' = "find"
    /\ phase' = "returned"
    /\ UNCHANGED <<candidates, extVars, bestCandidate, evictVars>>
    /\ DryRunForgotten

\* findCandidates: preemption helps on no node; it returns no candidate and
\* no error
FindCandidatesNoPotentialNodes ==
    /\ phase = "preempt"
    /\ fault = "none"
    /\ Len(potentialNodes) = 0
    /\ preemptResult' = NoCandidatesResult(FALSE)
    /\ returnedFrom' = "find"
    /\ phase' = "returned"
    /\ UNCHANGED <<candidates, extVars, bestCandidate, evictVars>>
    /\ DryRunForgotten

\* findCandidates calls DryRunPreemption(potentialNodes, pdbs, offset, numCandidates)
FindCandidatesDryRun ==
    /\ phase = "preempt"
    /\ fault = "none"
    /\ Len(potentialNodes) # 0
    /\ phase' = "dryrun"
    /\ UNCHANGED <<inputVars, dryVars, candidates, extVars, bestCandidate, preemptResult,
                   returnedFrom, evictVars, lessVars, pickVars, clVars, retrVars>>

\* Preempt: findCandidates found no candidate; the statuses and the errors go
\* into what is returned
PreemptNoCandidates ==
    /\ phase = "found"
    /\ Len(candidates) = 0
    /\ preemptResult' = NoCandidatesResult(Len(errs) # 0)
    /\ returnedFrom' = "find"
    /\ phase' = "returned"
    /\ UNCHANGED <<candidates, extVars, bestCandidate, evictVars>>
    /\ DryRunLocalsForgotten
    /\ UNCHANGED <<nodeStatuses, errs, fault, potentialNodes, lessVars, pickVars, clVars, retrVars>>

\* callExtenders: no extender is registered
CallExtendersNone ==
    /\ phase = "found"
    /\ Len(candidates) # 0
    /\ phase' = "select"
    /\ UNCHANGED <<candidates, extVars, bestCandidate, preemptResult, returnedFrom, evictVars>>
    /\ DryRunForgotten

\* callExtenders: k extenders are registered; the candidates become a map
CallExtendersBegin(k) ==
    /\ phase = "found"
    /\ Len(candidates) # 0
    /\ victimsMap' = CandidatesToVictimsMap(candidates)
    /\ extLeft' = k
    /\ phase' = "extenders"
    /\ UNCHANGED <<candidates, extReplaced, extLast, extOmitted, bestCandidate, preemptResult, returnedFrom, evictVars>>
    /\ DryRunForgotten

\* the next extender does not support preemption or is not interested
ExtenderSkipped ==
    /\ phase = "extenders"
    /\ extLeft > 0
    /\ extLeft' = extLeft - 1
    /\ extLast' = ExtenderDid("skipped", FALSE, FALSE)
    /\ UNCHANGED <<phase, candidates, victimsMap, extReplaced, extOmitted, bestCandidate, preemptResult, returnedFrom, evictVars>>
    /\ prepVarsUnchanged

\* ProcessPreemption of the next extender returns an error
ExtenderFails(ignorable) ==
    /\ phase = "extenders"
    /\ extLeft > 0
    /\ IF ignorable
       THEN /\ extLeft' = extLeft - 1
            /\ UNCHANGED <<phase, preemptResult, returnedFrom>>
       ELSE /\ preemptResult' = Returned("nil", "", "Error")
            /\ returnedFrom' = "extenders"
            /\ phase' = "returned"
            /\ UNCHANGED extLeft
    /\ extLast' = ExtenderDid("error", ignorable, FALSE)
    /\ UNCHANGED <<candidates, victimsMap, extReplaced, extOmitted, bestCandidate, evictVars>>
    /\ prepVarsUnchanged

\* what an extender may say of a node
ExtenderSays == {"keep", "drop", "empty", "other"}

\* the map ProcessPreemption returns for the map m when the extender says
\* says[n] of node n: for a node of m its victims as they are, no entry, an
\* entry without victims, or another pod of the node; for another potential
\* node no entry, or a pod of that node
ExtenderAnswer(m, says) ==
    LET D == { n \in DOMAIN says :
                 IF n \in DOMAIN m THEN says[n] # "drop" ELSE says[n] = "other" }
    IN  [ n \in D |->
            IF n \notin DOMAIN m THEN [pods |-> <<NodePods(n).lo1>>, pdb |-> 0]
            ELSE IF says[n] = "keep" THEN m[n]
            ELSE IF says[n] = "empty" THEN [pods |-> <<>>, pdb |-> 0]
            ELSE [pods |-> <<NodePods(n).hi>>, pdb |-> 0] ]

\* the check of the returned victims finds an entry without victims
HasEmptyEntry(m) == \E n \in DOMAIN m : Len(m[n].pods) = 0

\* a check that leaves the entries without victims in the map
WithOrWithoutVictims(m) == m

\* the entries of m that have victims
WithVictims(m) == [ n \in { x \in DOMAIN m : Len(m[x].pods) # 0 } |-> m[n] ]

\* ProcessPreemption of the next extender returns the map m
ExtenderAnswersWith(ignorable, m) ==
    /\ phase = "extenders"
    /\ extLeft > 0
    /\ IF (\E n \in DOMAIN m : Len(m[n].pods) = 0) /\ ~ignorable
       THEN /\ preemptResult' = Returned("nil", "", "Error")
            /\ returnedFrom' = "extenders"
            /\ phase' = "returned"
            /\ UNCHANGED <<victimsMap, extLeft, extReplaced, extOmitted>>
       ELSE /\ victimsMap' = WithVictims(m)
            /\ extReplaced' = TRUE
            /\ extOmitted' = extOmitted \cup (DOMAIN victimsMap \ DOMAIN m)
            /\ extLeft' = IF DOMAIN WithVictims(m) = {} THEN 0 ELSE extLeft - 1
            /\ UNCHANGED <<phase, preemptResult, returnedFrom>>
    /\ extLast' = ExtenderDid("answer", ignorable, HasEmptyEntry(m))
    /\ UNCHANGED <<candidates, bestCandidate, evictVars>>
    /\ prepVarsUnchanged

\* a rebuild that stops after the first key
FirstCandidateOfMap(m, order) ==
    [ i \in DOMAIN order \cap {1} |-> [name |-> order[i], victims |-> m[order[i]]] ]

\* newCandidates of callExtenders: one candidate per key of the map m, when
\* `range victimsMap` yields the keys in the order `order`
CandidatesOfMap(m, order) ==
    [ i \in DOMAIN order |-> [name |-> order[i], victims |-> m[order[i]]] ]

\* callExtenders returns the candidates rebuilt from the map, in the order
\* `range victimsMap` yields them
CallExtendersReturns ==
    /\ phase = "extenders"
    /\ extLeft = 0
    /\ \E order \in Perms(DOMAIN victimsMap) :
          candidates' = CandidatesOfMap(victimsMap, order)
    /\ phase' = "select"
    /\ extLast' = NoExtender
    /\ extOmitted' = {}
    /\ UNCHANGED <<victimsMap, extLeft, extReplaced, bestCandidate, preemptResult, returnedFrom, evictVars>>
    /\ prepVarsUnchanged

\* SelectCandidate(candidates) when `range victimsMap` yields the keys in the
\* order `order`: <<>> stands for nil
SelectCandidate(cs, order) ==
    IF Len(cs) = 0 THEN <<>>
    ELSE IF Len(cs) = 1 THEN cs[1]
    ELSE LET m == CandidatesToVictimsMap(cs)
             candidateNode == pickOneNodeForPreemption(m, order)
         IN  IF candidateNode \in DOMAIN m
             THEN [name |-> candidateNode, victims |-> m[candidateNode]]
             ELSE cs[1]

\* the pods the nominator may hold when prepareCandidate is called for the
\* node name: one below the preemptor's priority and one of its priority
\* nominated to that node, one below it nominated to another node
NominatedPods(name) ==
    { [id |-> "q1", prio |-> 0, node |-> name],
      [id |-> "q2", prio |-> PreemptorPriority, node |-> name],
      [id |-> "q3", prio |-> 0, node |-> "elsewhere"] }

\* Preempt: step 4, find the best candidate; step 5 begins
SelectBest ==
    /\ phase = "select"
    /\ \E order \in Perms({ candidates[i].name : i \in DOMAIN candidates }) :
          LET best == SelectCandidate(candidates, order)
          IN  IF best = <<>>
              THEN /\ preemptResult' = Returned("nil", "", "Unschedulable")
                   /\ returnedFrom' = "select"
                   /\ phase' = "returned"
                   /\ UNCHANGED <<bestCandidate, prepPc, patchEnabled>>
              ELSE /\ bestCandidate' = best
                   /\ phase' = "prepare"
                   /\ prepPc' = [i \in DOMAIN best.victims.pods |-> "idle"]
                   /\ patchEnabled' \in BOOLEAN
                   /\ UNCHANGED <<preemptResult, returnedFrom>>
    /\ UNCHANGED <<candidates, extVars, prepCancelled, prepErr, evicted, nominated, clearFailed,
                   rejected, patched, victimStatus, errCh, failures, observed>>
    /\ prepVarsUnchanged

----------------------------------------------------------------------------
(* Evaluator.prepareCandidate *)

\* a worker of Parallelizer.Until takes the victim index, unless the context
\* is cancelled
PrepareStartPiece(index) ==
    /\ phase = "prepare"
    /\ prepPc[index] = "idle"
    /\ ~prepCancelled
    /\ Cardinality({ i \in DOMAIN prepPc : prepPc[i] = "started" }) < Workers
    /\ prepPc' = [prepPc EXCEPT ![index] = "started"]
    /\ UNCHANGED <<phase, candidates, extVars, bestCandidate, preemptResult, returnedFrom,
                   prepCancelled, prepErr, evicted, nominated, clearFailed, auditVars>>
    /\ prepVarsUnchanged

\* how preemptPod may end: the victim was a waiting pod and is rejected; the
\* patch of its status fails; the delete fails; it is deleted
PreemptPodEnds == {"rejected", "patchFails", "deleteFails", "deleted"}

\* an error channel that keeps the error sent last
SendErrorLast(ch, e) == <<e>>

\* ErrorChannel.SendError: the error is kept when the channel holds none yet
SendError(ch, e) == IF ch = <<>> THEN <<e>> ELSE ch

\* the condition preemptPod adds: DisruptionTarget, True
DisruptionTarget == <<"DisruptionTarget", "True">>

\* pod.Status of the preemptor, a pending pod that found no node: no start
\* time (0), the condition PodScheduled False
PreemptorStatus ==
    [phase |-> "Pending", startTime |-> 0, conditions |-> {<<"PodScheduled", "False">>}]

\* victim.Status of a pod bound to a node and running
StatusOfVictim(victim) ==
    [phase |-> "Running", startTime |-> victim.start,
     conditions |-> {<<"PodScheduled", "True">>, <<"Ready", "True">>}]

\* apipod.UpdatePodCondition(status, condition): the status with the
\* condition set
UpdatePodCondition(status, condition) ==
    [status EXCEPT !.conditions =
        { c \in @ : c[1] # condition[1] } \cup {condition}]

\* newStatus := pod.Status.DeepCopy(), pod being the preemptor, with the
\* condition set by UpdatePodCondition
newStatus == UpdatePodCondition(PreemptorStatus, DisruptionTarget)

\* util.PatchPodStatus(ctx, cs, victim, status) when it succeeds: the
\* victim's status is the new status
PatchPodStatus(statuses, id, status) ==
    [v \in DOMAIN statuses \cup {id} |-> IF v = id THEN status ELSE statuses[v]]

\* preemptPod(index): the status patch is attempted when patchEnabled, before
\* the delete; errCh.SendErrorWithCancel on a failure
PreemptPod(index, ends) ==
    LET id == bestCandidate.victims.pods[index].id
    IN  /\ phase = "prepare"
        /\ prepPc[index] = "started"
        /\ ends = "patchFails" => patchEnabled
        /\ IF ends \in {"patchFails", "deleteFails"}
           THEN /\ prepErr' = TRUE
                /\ prepCancelled' = TRUE
                /\ errCh' = SendError(errCh, id)
                /\ failures' = Append(failures, id)
                /\ UNCHANGED <<evicted, rejected>>
           ELSE /\ evicted' = evicted \cup {id}
                /\ rejected' = IF ends = "rejected" THEN rejected \cup {id} ELSE rejected
                /\ UNCHANGED <<prepErr, prepCancelled, errCh, failures>>
        /\ patched' = IF patchEnabled /\ ends \in {"deleteFails", "deleted"}
                      THEN patched \cup {id} ELSE patched
        /\ victimStatus' = IF patchEnabled /\ ends \in {"deleteFails", "deleted"}
                           THEN PatchPodStatus(victimStatus, id, newStatus)
                           ELSE victimStatus
        /\ prepPc' = [prepPc EXCEPT ![index] = "done"]
        /\ UNCHANGED <<phase, candidates, extVars, bestCandidate, preemptResult, returnedFrom,
                       nominated, clearFailed, patchEnabled, observed>>
    /\ prepVarsUnchanged

\* the caller's context is cancelled, and with it prepareCandidate's
PrepareOuterCancel ==
    /\ phase = "prepare"
    /\ ~prepCancelled
    /\ prepCancelled' = TRUE
    /\ UNCHANGED <<phase, candidates, extVars, bestCandidate, preemptResult, returnedFrom,
                   prepPc, prepErr, evicted, nominated, clearFailed, auditVars>>
    /\ prepVarsUnchanged

\* Parallelizer.Until returns; errCh.ReceiveError(): with an error
\* prepareCandidate and Preempt return it, without one the metric is observed;
\* the nominator holds no pod, or the pods of NominatedPods
PrepareEvictionsReturn ==
    /\ phase = "prepare"
    /\ \A i \in DOMAIN prepPc : prepPc[i] # "started"
    /\ prepCancelled \/ \A i \in DOMAIN prepPc : prepPc[i] = "done"
    /\ IF prepErr
       THEN /\ preemptResult' = Returned("nil", "", "Error")
            /\ returnedFrom' = "prepare"
            /\ phase' = "returned"
            /\ UNCHANGED observed
       ELSE /\ phase' = "evicted"
            /\ observed' = Append(observed, Len(bestCandidate.victims.pods))
            /\ UNCHANGED <<preemptResult, returnedFrom>>
    /\ nominated' \in {{}, NominatedPods(bestCandidate.name)}
    /\ UNCHANGED <<candidates, extVars, bestCandidate, prepPc, prepCancelled, prepErr, evicted,
                   clearFailed, patchEnabled, rejected, patched, victimStatus, errCh,
                   failures>>
    /\ prepVarsUnchanged

\* every nominated pod counts as of a lower priority
getNominatedPods(noms, name) == { q \in noms : q.node = name }

\* getLowerPriorityNominatedPods(pod, nodeName) on the nominator's entries noms
getLowerPriorityNominatedPods(noms, name) ==
    { q \in noms : q.node = name /\ q.prio < PreemptorPriority }

\* util.ClearNominatedNodeName(nominatedPods...) clears the nomination of the
\* pods but those of failed, whose error is logged; prepareCandidate returns nil whatever it gave and
\* Preempt returns the node of the best candidate
ClearNominations(failed) ==
    /\ phase = "evicted"
    /\ nominated' = { IF q \in getLowerPriorityNominatedPods(nominated, bestCandidate.name) \ failed
                       THEN [q EXCEPT !.node = ""] ELSE q : q \in nominated }
    /\ clearFailed' = failed
    /\ preemptResult' = Returned("nominated", bestCandidate.name, "Success")
    /\ returnedFrom' = "success"
    /\ phase' = "returned"
    /\ UNCHANGED <<candidates, extVars, bestCandidate, prepPc, prepCancelled, prepErr, evicted,
                   auditVars>>
    /\ prepVarsUnchanged

NextPreempt ==
    \/ PreemptFetchFails
    \/ PreemptNotEligible
    \/ FindCandidatesFails
    \/ FindCandidatesNoPotentialNodes
    \/ FindCandidatesDryRun
    \/ StartPiece
    \/ \E i \in Pieces : AddCandidate(i)
    \/ \E i \in Pieces : ReadNvcSize(i)
    \/ \E i \in Pieces : ReadVcSizeAndCancel(i)
    \/ \E i \in Pieces : RecordStatus(i)
    \/ OuterCancel
    \/ DryRunReturns
    \/ PreemptNoCandidates
    \/ CallExtendersNone
    \/ \E k \in 1..MaxExt : CallExtendersBegin(k)
    \/ ExtenderSkipped
    \/ \E ig \in BOOLEAN : ExtenderFails(ig)
    \/ \E ig \in BOOLEAN :
          \E says \in [ { potentialNodes[i] : i \in DOMAIN potentialNodes } -> ExtenderSays ] :
              ExtenderAnswersWith(ig, ExtenderAnswer(victimsMap, says))
    \/ CallExtendersReturns
    \/ SelectBest
    \/ \E index \in DOMAIN prepPc : PrepareStartPiece(index)
    \/ \E index \in DOMAIN prepPc : \E ends \in PreemptPodEnds : PreemptPod(index, ends)
    \/ PrepareOuterCancel
    \/ PrepareEvictionsReturn
    \/ \E failed \in SUBSET getLowerPriorityNominatedPods(nominated, bestCandidate.name) :
          ClearNominations(failed)

SpecPreempt == InitPreempt /\ [][NextPreempt]_vars

----------------------------------------------------------------------------
(* Claims about Preempt, DryRunPreemption and callExtenders *)

\* every pod of the victims v has a priority below the preemptor's
BelowPreemptor(v) == \A k \in DOMAIN v.pods : v.pods[k].prio < PreemptorPriority

\* the candidates of cs without a disruption-budget violation, and with one
NonViolating(cs) == { i \in DOMAIN cs : cs[i].victims.pdb = 0 }
Violating(cs) == { i \in DOMAIN cs : cs[i].victims.pdb # 0 }

C2_AtMostNumCandidates ==
    phase = "found" => Len(candidates) <= numCandidates

\* C2 (amended): neither candidate list ever holds more than numCandidates
\* candidates, and DryRunPreemption returns at most numCandidates candidates
\* without a violation and at most numCandidates with one, so never more than
\* twice numCandidates
C2_AtMostNumCandidatesOfEachClass ==
    /\ phase \in {"dryrun", "found"} =>
          /\ Len(nonViolatingCandidates.items) <= numCandidates
          /\ Len(violatingCandidates.items) <= numCandidates
    /\ phase = "found" =>
          /\ Cardinality(NonViolating(candidates)) <= numCandidates
          /\ Cardinality(Violating(candidates)) <= numCandidates
          /\ Len(candidates) <= 2 * numCandidates

\* DryRunPreemption returns more than numCandidates candidates, after an add()
\* found the list of violating candidates full
C2_MoreThanNumCandidates ==
    /\ phase = "found"
    /\ Len(candidates) > numCandidates
    /\ violatingCandidates.adds > numCandidates

\* a potential node for which SelectVictimsOnNode gives victims without a
\* disruption-budget violation
YieldsNonViolating(n) ==
    /\ outcome[n].status = "Success"
    /\ Len(outcome[n].pods) # 0
    /\ outcome[n].pdb = 0

\* C3: when a potential node yields victims with no violation and the outer
\* context is not cancelled, DryRunPreemption returns a candidate with no
\* violation; and of candidates with one among them SelectCandidate picks one
\* with no violation
C3_NonViolatingPreferred ==
    /\ ( /\ phase = "found"
         /\ ~outerCancelled
         /\ \E n \in DOMAIN outcome : YieldsNonViolating(n) )
       => NonViolating(candidates) # {}
    /\ (phase = "prepare" /\ NonViolating(candidates) # {})
       => bestCandidate.victims.pdb = 0

\* a candidate with no violation is picked though a violating candidate was
\* returned too
C3_PickedOverViolating ==
    /\ phase = "prepare"
    /\ ~extReplaced
    /\ Violating(candidates) # {}
    /\ NonViolating(candidates) # {}
    /\ bestCandidate.victims.pdb = 0

\* the pieces whose checkNode has returned
Evaluated == { i \in Pieces : taskPc[i] = "done" }

\* C10: pieces evaluate nodes at distinct indices, piece i the node at index
\* (offset + i) mod |V|; the candidates returned name distinct nodes; and
\* without cancellation every potential node is evaluated exactly once
C10_DistinctNodes ==
    /\ phase \in {"dryrun", "found"} =>
          /\ \A i \in Pieces : NodeIndex(i) = ((offset + i) % Len(potentialNodes)) + 1
          /\ \A i, j \in Pieces : NodeIndex(i) = NodeIndex(j) => i = j
    /\ phase = "found" =>
          /\ \A i, j \in DOMAIN candidates :
                candidates[i].name = candidates[j].name => i = j
          /\ ~cancelled =>
                \A k \in DOMAIN potentialNodes :
                    Cardinality({ i \in Evaluated : NodeIndex(i) = k }) = 1

\* three nodes were evaluated from an offset that wraps around, without
\* cancellation, and two candidates returned
C10_WrappedAround ==
    /\ phase = "found"
    /\ ~cancelled
    /\ Len(potentialNodes) = 3
    /\ offset = 2
    /\ Len(candidates) >= 2

\* the potential nodes for which SelectVictimsOnNode succeeded without
\* victims and whose checkNode has returned
EvaluatedWithoutVictims ==
    { NodeOf(i) : i \in { j \in Evaluated :
                            /\ outcome[NodeOf(j)].status = "Success"
                            /\ Len(outcome[NodeOf(j)].pods) = 0 } }

\* C11: no candidate has an empty victim list, neither one DryRunPreemption
\* returns nor one callExtenders returns; a node for which SelectVictimsOnNode
\* succeeds with zero pods gives no candidate and is recorded in the status
\* map with an Error status, its error among the aggregated errors
C11_NoCandidateWithoutVictims ==
    /\ phase \in {"found", "extenders", "select", "prepare"} =>
          \A i \in DOMAIN candidates : Len(candidates[i].victims.pods) # 0
    /\ phase \in {"dryrun", "found"} =>
          \A n \in EvaluatedWithoutVictims :
              /\ \A i \in DOMAIN nonViolatingCandidates.items :
                    nonViolatingCandidates.items[i].name # n
              /\ \A i \in DOMAIN violatingCandidates.items :
                    violatingCandidates.items[i].name # n
              /\ n \in DOMAIN nodeStatuses
              /\ nodeStatuses[n] = "Error"
              /\ \E k \in DOMAIN errs : errs[k] = n
    /\ phase = "found" =>
          \A n \in EvaluatedWithoutVictims : \A i \in DOMAIN candidates : candidates[i].name # n

\* the dry run returns a candidate beside a node that succeeded without
\* victims and was recorded
C11_RecordedBesideCandidate ==
    /\ phase = "found"
    /\ Len(candidates) # 0
    /\ EvaluatedWithoutVictims # {}

\* Preempt returned Success
ReturnedSuccess == phase = "returned" /\ returnedFrom = "success"

\* preemptPod has evicted every victim of the best candidate
AllVictimsEvicted ==
    /\ ~prepErr
    /\ \A i \in DOMAIN prepPc :
          prepPc[i] = "done" /\ bestCandidate.victims.pods[i].id \in evicted

\* the pods of a priority below the preemptor's that are nominated to the
\* node of the best candidate
StillNominatedBelow ==
    { q \in nominated : q.prio < PreemptorPriority /\ q.node = bestCandidate.name }

ReturnedWithoutCandidates == phase = "returned" /\ returnedFrom = "find"

\* the candidate search failed: findCandidates returned an error of its own,
\* or the errors the dry run collected
SearchFailed == fault \in {"nodeList", "noNodes", "budgets"} \/ Len(errs) # 0

\* C13: when the preemptor is eligible and no node gives a candidate, without
\* any error (also when no node is a potential node), Preempt returns a
\* non-nil result with the empty nominated node and status Unschedulable, and
\* no pod is evicted; when the search fails with an error and finds no
\* candidate, Preempt returns a nil result with status Error
C13_NoCandidateReturns ==
    ReturnedWithoutCandidates =>
        /\ evicted = {}
        /\ SearchFailed =>
              preemptResult = [result |-> "nil", node |-> "", status |-> "Error"]
        /\ ~SearchFailed =>
              preemptResult = [result |-> "nominated", node |-> "", status |-> "Unschedulable"]

\* the dry run evaluated more than one node, none gave a candidate and none
\* an error
C13_DryRunFoundNone ==
    /\ ReturnedWithoutCandidates
    /\ ~SearchFailed
    /\ Cardinality(DOMAIN nodeStatuses) > 1
    /\ preemptResult.result = "nominated"

\* the pods that are victims of the best candidate
BestVictims == { bestCandidate.victims.pods[i].id : i \in DOMAIN bestCandidate.victims.pods }

\* Preempt returned before prepareCandidate: the preemptor could not be
\* fetched or is not eligible, the candidate search gave nothing, an extender
\* failed, or nothing was selected
ReturnedBeforePrepare ==
    phase = "returned" /\ returnedFrom \in {"fetch", "eligible", "find", "extenders", "select"}

\* the evictions are those of one candidate, and before prepareCandidate
\* there is none
EvictsOnlyBestVictims ==
    /\ phase \in {"prepare", "evicted", "returned"} /\ returnedFrom \notin {"fetch", "eligible", "find", "extenders", "select"} =>
          evicted \subseteq BestVictims
    /\ (phase \in {"preempt", "dryrun", "found", "extenders", "select"} \/ ReturnedBeforePrepare) =>
          evicted = {}

\* C14 (as stated): Preempt returns Success only after every victim of
\* exactly one candidate, the one selected after the extenders, has been
\* rejected from the waiting-pod table or deleted, and the nominated node it
\* returns is that candidate's non-empty node name; on every return before
\* prepareCandidate no pod has been evicted
C14_SuccessOnlyAfterEvictions ==
    /\ EvictsOnlyBestVictims
    /\ ReturnedSuccess =>
          /\ evicted = BestVictims
          /\ \E i \in DOMAIN candidates : candidates[i] = bestCandidate
          /\ preemptResult = [result |-> "nominated", node |-> bestCandidate.name, status |-> "Success"]
          /\ bestCandidate.name # ""

\* what does hold of the code: the above, unless the context of
\* prepareCandidate was cancelled before every victim index was handed out
C14_SuccessAfterEvictionsUnlessCancelled ==
    /\ EvictsOnlyBestVictims
    /\ ReturnedSuccess =>
          /\ (\A i \in DOMAIN prepPc : prepPc[i] = "done") => evicted = BestVictims
          /\ (\E i \in DOMAIN prepPc : prepPc[i] # "done") => prepCancelled
          /\ \E i \in DOMAIN candidates : candidates[i] = bestCandidate
          /\ preemptResult = [result |-> "nominated", node |-> bestCandidate.name, status |-> "Success"]
          /\ bestCandidate.name # ""

\* Preempt returned Success although no victim was evicted
C14_SuccessWithoutEviction ==
    /\ ReturnedSuccess
    /\ evicted = {}
    /\ BestVictims # {}

\* callExtenders returns and no extender has replaced the victims map: every
\* extender was skipped or failed with an error that is ignored
ReturnsUnreplaced == phase = "extenders" /\ phase' = "select" /\ ~extReplaced

\* C19: with extenders registered of which none changes the map (none
\* interested, none supporting preemption, only ignorable failures),
\* callExtenders returns exactly one candidate per input node, with that
\* node's original victims
C19_SameCandidatesWhenMapUnchanged ==
    [][ReturnsUnreplaced =>
          /\ Len(candidates') = Len(candidates)
          /\ \A i \in DOMAIN candidates : \E j \in DOMAIN candidates' : candidates'[j] = candidates[i]
          /\ \A i, j \in DOMAIN candidates' : candidates'[i].name = candidates'[j].name => i = j]_vars

\* callExtenders has returned several candidates that went through the map
\* and no extender replaced it
C19_RebuiltFromUnreplacedMap ==
    /\ phase = "select"
    /\ ~extReplaced
    /\ Cardinality(DOMAIN victimsMap) > 1
    /\ Len(candidates) = Cardinality(DOMAIN victimsMap)

DoneWithCandidate(nonViolating) ==
    { i \in Evaluated :
        /\ outcome[NodeOf(i)].status = "Success"
        /\ Len(outcome[NodeOf(i)].pods) # 0
        /\ (outcome[NodeOf(i)].pdb = 0) = nonViolating }

\* the cap is reached with a non-violating candidate, by the sizes of the
\* two lists as they are now
CapReachedNow ==
    /\ size(nonViolatingCandidates, numCandidates) > 0
    /\ size(nonViolatingCandidates, numCandidates)
         + size(violatingCandidates, numCandidates) >= numCandidates

\* C22 (as stated): the dry run signals cancellation once the cap is reached
\* with a non-violating candidate and once a task has reported an error
\* status, never while nonViolating is empty and no error has occurred, and
\* the tasks running at the signal complete and have their result recorded
C22_CancelsOnCapOrError ==
    phase = "dryrun" =>
        /\ (CapReachedNow /\ \A i \in Pieces : taskPc[i] \notin {"added", "readNvc"})
             => cancelled
        /\ Len(errs) # 0 => cancelled
        /\ cancelledBy # {}
             => (size(nonViolatingCandidates, numCandidates) > 0 \/ Len(errs) # 0)

\* C22 (amended): the task whose add() reaches the cap with a non-violating
\* candidate signals cancellation before it returns; the dry run signals
\* cancellation for no other reason, so never while nonViolating is empty and
\* not because a task recorded an error status; the tasks running at the
\* signal complete: when DryRunPreemption returns every piece handed out has
\* returned, having called add() or recorded its status
C22_CancelsOnCapOnly ==
    /\ phase = "dryrun" =>
          /\ (CapReachedNow /\ \A i \in Pieces : taskPc[i] \notin {"added", "readNvc"})
               => cancelled
          /\ cancelledBy # {} => CapReachedNow
          /\ cancelled => (cancelledBy # {} \/ outerCancelled)
    /\ phase = "found" =>
          /\ \A i \in Pieces : taskPc[i] = (IF i < nextPiece THEN "done" ELSE "idle")
          /\ nonViolatingCandidates.adds = Cardinality(DoneWithCandidate(TRUE))
          /\ violatingCandidates.adds = Cardinality(DoneWithCandidate(FALSE))
          /\ DOMAIN nodeStatuses =
                { NodeOf(i) : i \in Evaluated \ (DoneWithCandidate(TRUE) \cup DoneWithCandidate(FALSE)) }

\* a task has recorded an error status and a later piece was handed out all
\* the same; that piece is still running while another task has signalled
\* cancellation on reaching the cap
C22_RunningAtCancelAfterError ==
    /\ phase = "dryrun"
    /\ ~outerCancelled
    /\ cancelledBy # {}
    /\ Len(errs) # 0
    /\ nextPiece = 3
    /\ taskPc[2] = "started"

\* C23: in the list DryRunPreemption returns every candidate without a
\* disruption-budget violation precedes every candidate with one
C23_NonViolatingFirst ==
    phase = "found" =>
        \A i \in NonViolating(candidates) : \A j \in Violating(candidates) : i < j

\* one task at a time: the first node evaluated gave a violating candidate, a
\* later one a non-violating candidate, and the list returned starts with the
\* non-violating one
C23_AddedLaterReturnedFirst ==
    /\ phase = "found"
    /\ parallelism = 1
    /\ outcome[NodeOf(0)].status = "Success"
    /\ Len(outcome[NodeOf(0)].pods) # 0
    /\ outcome[NodeOf(0)].pdb # 0
    /\ Len(candidates) >= 2
    /\ candidates[1].victims.pdb = 0
    /\ candidates[Len(candidates)].name = NodeOf(0)

\* Preempt returns (nil, Error) out of callExtenders, no pod evicted
CycleFailedByExtender ==
    /\ phase = "returned"
    /\ returnedFrom = "extenders"
    /\ preemptResult = Returned("nil", "", "Error")
    /\ bestCandidate = <<>>
    /\ prepPc = <<>>
    /\ evicted = {}

\* the extender consulted last is not ignorable and its ProcessPreemption
\* failed or returned an entry without victims
FatalExtender ==
    /\ ~extLast.ignorable
    /\ extLast.kind = "error" \/ (extLast.kind = "answer" /\ extLast.empty)

\* C25: an error of ProcessPreemption fails the cycle (nil result, Error
\* status, no eviction) unless the extender is ignorable, and then the victims
\* map stays as it was and the loop goes on to the next extender; an entry
\* without victims is dropped for an ignorable extender, and fails the cycle
\* otherwise
C25_ExtenderErrors ==
    /\ [](FatalExtender <=> returnedFrom = "extenders")
    /\ [](returnedFrom = "extenders" => CycleFailedByExtender)
    /\ []((extLast.kind \in {"error", "answer"} /\ ~FatalExtender) => phase = "extenders")
    /\ []((extLast.kind = "answer" /\ ~FatalExtender) => ~HasEmptyEntry(victimsMap))
    /\ [][(extLast'.kind = "error" /\ extLast'.ignorable /\ extLeft' # extLeft) =>
            /\ victimsMap' = victimsMap
            /\ extReplaced' = extReplaced
            /\ extLeft' = extLeft - 1
            /\ phase' = "extenders"]_vars

\* an ignorable extender, the last one, has returned an entry without
\* victims for the node of one of two candidates, and the map goes on with
\* the other node
C25_IgnorableErrorThenEmptyEntry ==
    /\ phase = "extenders"
    /\ extLast = ExtenderDid("answer", TRUE, TRUE)
    /\ extLeft = 0
    /\ Len(candidates) = 2
    /\ Cardinality(DOMAIN victimsMap) = 1

\* the loop of callExtenders consults one extender per step, and stops when
\* the map is empty
OneExtenderAtATime ==
    (phase = "extenders" /\ phase' = "extenders") =>
        \/ extLeft' = extLeft - 1
        \/ extReplaced' /\ DOMAIN victimsMap' = {} /\ extLeft' = 0

\* Preempt returns (nil, Unschedulable) when the candidates are none, no pod
\* evicted
NoneLeftReturnsUnschedulable ==
    (phase = "select" /\ Len(candidates) = 0) =>
        /\ phase' = "returned"
        /\ preemptResult' = Returned("nil", "", "Unschedulable")
        /\ bestCandidate' = <<>>
        /\ prepPc' = <<>>
        /\ evicted' = {}

\* C26 (as stated): extenders are consulted one after another on the map the
\* previous successful extender returned; a node an extender omitted is in no
\* candidate callExtenders returns; once the map is empty no further extender
\* is consulted and Preempt returns (nil, Unschedulable) without evicting
C26_OmittedNeverReturned ==
    /\ [][OneExtenderAtATime]_vars
    /\ []((phase = "extenders" /\ extReplaced /\ DOMAIN victimsMap = {}) => extLeft = 0)
    /\ [][NoneLeftReturnsUnschedulable]_vars
    /\ [][(phase = "extenders" /\ phase' = "select") =>
            \A i \in DOMAIN candidates' : candidates'[i].name \notin extOmitted]_vars

\* C26 (amended): extenders are consulted one after another on the map the
\* previous successful extender returned; a node an extender omits is not in
\* the map the next extender is given, and the candidates callExtenders
\* returns are exactly the entries of the map the last successful extender
\* returned; once the map is empty no further extender is consulted and
\* Preempt returns (nil, Unschedulable) without evicting
C26_CandidatesOfLastAnswer ==
    /\ [][OneExtenderAtATime]_vars
    /\ []((phase = "extenders" /\ extReplaced /\ DOMAIN victimsMap = {}) => extLeft = 0)
    /\ [][NoneLeftReturnsUnschedulable]_vars
    /\ [][phase = "extenders" => (extOmitted' \ extOmitted) \cap DOMAIN victimsMap' = {}]_vars
    /\ [][(phase = "extenders" /\ phase' = "select") =>
            /\ { candidates'[i].name : i \in DOMAIN candidates' } = DOMAIN victimsMap
            /\ Len(candidates') = Cardinality(DOMAIN victimsMap)
            /\ \A i \in DOMAIN candidates' :
                  candidates'[i].victims = victimsMap[candidates'[i].name]]_vars

\* the last extender has returned, with victims, a node that an earlier
\* extender had omitted
C26_OmittedNodeReturnedByLaterExtender ==
    /\ phase = "extenders"
    /\ extLeft = 0
    /\ extLast.kind = "answer"
    /\ extOmitted \cap DOMAIN victimsMap # {}

\* the victims deleted: evicted and not as waiting pods
Deleted == evicted \ rejected

\* Preempt has returned the error of a failed eviction
EvictionFailed == phase = "returned" /\ returnedFrom = "prepare"

\* C27: a waiting victim is rejected and not deleted, another victim is
\* deleted only after its status patch, when enabled, succeeded; when an
\* eviction fails the evictions not yet started are cancelled, the first
\* error is returned as the status, the preemption_victims metric is not
\* observed, no nomination is cleared, and the victims already evicted stay
\* evicted
C27_EvictionErrors ==
    /\ [](phase \in {"prepare", "evicted", "returned"} =>
            /\ rejected \subseteq evicted
            /\ rejected \cap patched = {}
            /\ patchEnabled => Deleted \subseteq patched
            /\ ~patchEnabled => patched = {}
            /\ \A k \in DOMAIN failures : failures[k] \notin evicted
            /\ Len(failures) # 0 => (prepCancelled /\ errCh = <<failures[1]>>))
    /\ [](EvictionFailed =>
            /\ Len(failures) # 0
            /\ preemptResult = Returned("nil", "", "Error")
            /\ observed = <<>>
            /\ clearFailed = {}
            /\ \A q \in nominated : q.node # "")
    /\ []((phase = "returned" /\ Len(failures) # 0) => EvictionFailed)
    /\ [][(phase = "prepare" /\ Len(failures) # 0) =>
            /\ \A i \in DOMAIN prepPc : prepPc[i] = "idle" => prepPc'[i] = "idle"
            /\ evicted \subseteq evicted'
            /\ phase' \in {"prepare", "returned"}]_vars

\* Preempt has returned the error of a failed eviction, another victim being
\* deleted after its patch, and the nominator still holds the lower-priority
\* pod nominated to the node
C27_FailedAfterAnEviction ==
    /\ EvictionFailed
    /\ patchEnabled
    /\ Len(failures) = 1
    /\ Deleted # {}
    /\ Deleted \subseteq patched
    /\ StillNominatedBelow # {}

----------------------------------------------------------------------------
(* Evaluator.Retrieve *)

\* the throughput figures are kept as integers: the figure times Scale
Scale == 100000

\* scalableModelData of Dynamic: model name -> throughput by number of GPUs,
\* the index counted from 0
scalableModelData ==
    ("VGG16" :> <<423200, 349900, 461000, 452600, 539600, 636300>>)
    @@ ("VGG19" :> <<369300, 279300, 362940, 431050, 520510, 593400>>)
    @@ ("inceptionv3" :> <<350000, 549500, 629000, 844900, 969300, 1126200>>)
    @@ ("alex-net" :> <<1596900, 749600, 900200, 1057200, 1300500, 1470800>>)
    @@ ("resnet50" :> <<678098, 777700, 1247010, 1218717, 1590254, 1896800>>)
    @@ ("resnet101" :> <<425300, 551900, 886300, 881710, 968600, 1290400>>)

\* scalableModelData[model][i] does not panic: a missing key gives a nil slice
CanIndex(model, i) ==
    /\ model \in DOMAIN scalableModelData
    /\ i >= 0 /\ i < Len(scalableModelData[model])

\* scalableModelData[model][i]
Throughput(model, i) == scalableModelData[model][i + 1]

\* int(x) of a float64: the fraction is dropped, towards zero
IntOf(x) == IF x >= 0 THEN x \div Scale ELSE -((-x) \div Scale)

\* a pod that is not backfilled, created after every preemptor
OtherPod ==
    [state |-> "", creation |-> MaxTime, ann |-> NoAnn, gpus |-> 1, model |-> "VGG16"]

\* the pods bound to the node: state is Annotations["scheduling-state"], ann
\* is Annotations["retract-check-var"], gpus the nvidia.com/gpu request, model
\* is Annotations["model-name"] ("" when absent)
RetrievePods ==
    { OtherPod }
    \cup [state : {"backfilled"}, creation : Times, ann : AnnValues,
          gpus : 1..MaxGPU, model : {"VGG16", ""}]

\* no lookup of Retrieve or Dynamic has failed: Pods("").List of the node,
\* GetMPIJob of a running job
NoLookupErr == [pods |-> FALSE, job |-> FALSE]

\* the scale-out annotation of an MPIJob: absent, or a decimal integer
NoScaleOut == [present |-> FALSE, n |-> 0]
ScaleOutOf(n) == [present |-> TRUE, n |-> n]

\* the MPIJob records of namespace my-ns; the pods of the jobs are not
\* backfilled and are left out of clusterPods
MPIJobConfigs ==
    LET fixed == [replicas |-> 3, scaleOut |-> ScaleOutOf(1), model |-> "resnet50"]
        plain == [replicas |-> 2, scaleOut |-> NoScaleOut, model |-> "resnet50"]
        other == [replicas |-> 4, scaleOut |-> ScaleOutOf(1), model |-> "resnet101"]
    IN  { <<>>, ("bert-elastic" :> fixed) }
        \cup { ("tensorflow-mnist-elastic" :> v) : v \in {fixed, plain} }
        \cup { ("tensorflow-mnist-elastic" :> v) @@ ("bert-elastic" :> fixed) :
                 v \in {fixed, plain, other} }

\* runningMPIJobs, as ListRunningMPIJob lists the jobs that have pods
RunningMPIJobs(jobs) ==
    (IF "tensorflow-mnist-elastic" \in DOMAIN jobs THEN <<"tensorflow-mnist-elastic">> ELSE <<>>)
    \o (IF "bert-elastic" \in DOMAIN jobs THEN <<"bert-elastic">> ELSE <<>>)

\* a timestamp that looks at the creation time only
getPodTimestampOfCreation(pod) == pod.creation

\* getPodTimestamp(pod): the retract-check-var annotation when it parses, else
\* the creation timestamp
getPodTimestamp(pod) ==
    IF pod.ann.kind = "time" THEN pod.ann.t ELSE pod.creation

\* the elements of the set of indices I as a sequence, in increasing order
InOrder(I) ==
    [ k \in 1..Cardinality(I) |->
        CHOOSE i \in I : Cardinality({ j \in I : j < i }) = k - 1 ]

\* backfilledPods as the first loop of Retrieve builds it from the listed
\* pods: indices of pods, in listing order
BackfilledPods(pods, now) ==
    InOrder({ i \in DOMAIN pods :
                /\ pods[i].state = "backfilled"
                /\ getPodTimestamp(now) < getPodTimestamp(pods[i]) })

\* scaleOutMPIJobs: the running jobs that carry the scale-out annotation
ScaleOutMPIJobs(jobs) ==
    SelectSeq(RunningMPIJobs(jobs), LAMBDA j : jobs[j].scaleOut.present)

\* building the candidate of a backfilled pod indexes the table out of range
BackfilledPanics(pod) == ~CanIndex(pod.model, pod.gpus)

\* building the candidate of a scaled-out job indexes the table out of range
ScaleInfoPanics(job) ==
    \/ ~CanIndex(job.model, job.replicas)
    \/ ~CanIndex(job.model, job.replicas - job.scaleOut.n)

\* backfilledInfo: kind 0, the index into backfilledPods, the GPUs requested,
\* the throughput of the pod's model at that many GPUs
BackfilledInfo(i, pod) ==
    <<0, i, pod.gpus, IntOf(Throughput(pod.model, pod.gpus))>>

\* scaleInfo: kind 1, the index into scaleOutMPIJobs, the GPUs scaled out,
\* int(s1 - s2)
ScaleInfo(i, job) ==
    <<1, i, job.scaleOut.n,
      IntOf(Throughput(job.model, job.replicas)
            - Throughput(job.model, job.replicas - job.scaleOut.n))>>

\* sort.SliceStable by the field k, ascending
RECURSIVE SliceStable(_, _)
SliceStable(s, k) ==
    IF Len(s) <= 1 THEN s
    ELSE LET front == SliceStable(SubSeq(s, 1, Len(s) - 1), k)
             x == s[Len(s)]
             before == SelectSeq(front, LAMBDA y : y[k] <= x[k])
             after == SelectSeq(front, LAMBDA y : y[k] > x[k])
         IN  before \o <<x>> \o after

\* the GPUs of the first n candidates of cs
RECURSIVE GpusOfPrefix(_, _)
GpusOfPrefix(cs, n) == IF n = 0 THEN 0 ELSE GpusOfPrefix(cs, n - 1) + cs[n][3]

\* a check that lets every candidate list pass
PrefixCoversAlways(cs, needGPUs) == TRUE

\* checkTemp: the first loop over the sorted candidates
PrefixCovers(cs, needGPUs) ==
    \E n \in 1..Len(cs) : needGPUs - GpusOfPrefix(cs, n) <= 0

\* the decimal string of n followed by strconv.Itoa(k), read as a decimal
\* integer: "1" + "1" is "11"
AppendItoa(n, k) ==
    n * (IF k < 10 THEN 10 ELSE IF k < 100 THEN 100 ELSE 1000) + k

\* annotations["scale-out"] += strconv.Itoa(scaleNum): an absent key reads ""
AppendedTo(scaleOut, scaleNum) == ScaleOutOf(AppendItoa(scaleOut.n, scaleNum))

\* MPIJobScaling(ns "my-ns", name, scaleNum) on a job that exists: the worker
\* replicas change by scaleNum, and for scaleNum > 0 the scale-out annotation
\* has scaleNum appended
MPIJobScaling(jobs, name, scaleNum) ==
    [jobs EXCEPT ![name] =
        [@ EXCEPT !.replicas = @ + scaleNum,
                  !.scaleOut = IF scaleNum > 0 THEN AppendedTo(@, scaleNum) ELSE @]]

InitRetrieve ==
    /\ RestLess
    /\ RestPick
    /\ RestCandidateList
    /\ RestPreempt
    /\ rPc = "start"
    /\ podNow \in [creation : Times, ann : AnnValues]
    /\ clusterPods \in SeqsUpTo(RetrievePods, MaxPods)
    /\ mpiJobs \in MPIJobConfigs
    /\ idleGPUs \in 0..MaxIdle
    /\ requestGPUs \in 1..MaxRequest
    /\ backfilledPods = <<>>
    /\ retrieveCandidates = <<>>
    /\ needGPUsTemp = 0
    /\ applied = 0
    /\ retracted = <<>>
    /\ scaledDown = <<>>
    /\ retrieveOut = "none"
    /\ lookupErr = NoLookupErr
    /\ RestDynamic

\* Retrieve up to the two sorts: the candidates are gathered; podListFails
\* says that listing the pods of the node failed, jobGetFails that GetMPIJob
\* failed, which leaves a nil MPIJob to be dereferenced
RetrieveGather(podListFails, jobGetFails) ==
    /\ rPc = "start"
    /\ LET pods == IF podListFails THEN <<>> ELSE clusterPods
           bf == BackfilledPods(pods, podNow)
           so == ScaleOutMPIJobs(mpiJobs)
           panics ==
               \/ jobGetFails /\ RunningMPIJobs(mpiJobs) # <<>>
               \/ \E i \in DOMAIN bf : BackfilledPanics(pods[bf[i]])
               \/ \E i \in DOMAIN so : ScaleInfoPanics(mpiJobs[so[i]])
           cs == [ i \in DOMAIN bf |-> BackfilledInfo(i, pods[bf[i]]) ]
                 \o [ i \in DOMAIN so |-> ScaleInfo(i, mpiJobs[so[i]]) ]
       IN  IF panics
           THEN /\ retrieveOut' = "panic"
                /\ rPc' = "done"
                /\ UNCHANGED <<backfilledPods, retrieveCandidates>>
           ELSE /\ backfilledPods' = bf
                /\ IF Len(cs) = 0
                   THEN /\ retrieveOut' = "false"
                        /\ rPc' = "done"
                        /\ UNCHANGED retrieveCandidates
                   ELSE /\ retrieveCandidates' = SliceStable(SliceStable(cs, 4), 3)
                        /\ rPc' = "check"
                        /\ UNCHANGED retrieveOut
    /\ lookupErr' = [pods |-> podListFails,
                     job |-> jobGetFails /\ RunningMPIJobs(mpiJobs) # <<>>]
    /\ UNCHANGED <<podNow, clusterPods, mpiJobs, idleGPUs, requestGPUs, needGPUsTemp,
                   applied, retracted, scaledDown, dynVars, lessVars, pickVars, clVars, preemptVars>>

\* Retrieve: needGPUs and the first loop over the sorted candidates
RetrieveCheckPrefix ==
    /\ rPc = "check"
    /\ LET needGPUs == requestGPUs - idleGPUs
       IN  IF ~PrefixCovers(retrieveCandidates, needGPUs)
           THEN /\ retrieveOut' = "false"
                /\ rPc' = "done"
                /\ UNCHANGED needGPUsTemp
           ELSE /\ needGPUsTemp' = needGPUs
                /\ rPc' = "apply"
                /\ UNCHANGED retrieveOut
    /\ UNCHANGED <<podNow, clusterPods, mpiJobs, idleGPUs, requestGPUs, backfilledPods,
                   retrieveCandidates, applied, retracted, scaledDown, lookupErr,
                   dynVars, lessVars, pickVars, clVars, preemptVars>>

\* Retrieve: one round of the second loop; a pod is retracted, or the job
\* "tensorflow-mnist-elastic" of "my-ns" scaled down, and MPIJobScaling
\* dereferences a nil MPIJob when there is no such job
RetrieveApply ==
    /\ rPc = "apply"
    /\ LET candidate == retrieveCandidates[applied + 1]
           left == needGPUsTemp - candidate[3]
       IN  IF candidate[1] # 0 /\ "tensorflow-mnist-elastic" \notin DOMAIN mpiJobs
           THEN /\ retrieveOut' = "panic"
                /\ rPc' = "done"
                /\ UNCHANGED <<mpiJobs, needGPUsTemp, applied, retracted, scaledDown>>
           ELSE /\ IF candidate[1] = 0
                   THEN /\ retracted' = Append(retracted, backfilledPods[candidate[2]])
                        /\ UNCHANGED <<mpiJobs, scaledDown>>
                   ELSE /\ mpiJobs' = MPIJobScaling(mpiJobs, "tensorflow-mnist-elastic", -candidate[3])
                        /\ scaledDown' = Append(scaledDown,
                               [job |-> "tensorflow-mnist-elastic", scaleNum |-> -candidate[3]])
                        /\ UNCHANGED retracted
                /\ needGPUsTemp' = left
                /\ applied' = applied + 1
                /\ IF left <= 0
                   THEN retrieveOut' = "true" /\ rPc' = "done"
                   ELSE IF applied + 1 = Len(retrieveCandidates)
                   THEN retrieveOut' = "false" /\ rPc' = "done"
                   ELSE UNCHANGED <<retrieveOut, rPc>>
    /\ UNCHANGED <<podNow, clusterPods, idleGPUs, requestGPUs, backfilledPods,
                   retrieveCandidates, lookupErr, dynVars, lessVars, pickVars, clVars,
                   preemptVars>>

NextRetrieve ==
    \/ \E podListFails, jobGetFails \in BOOLEAN : RetrieveGather(podListFails, jobGetFails)
    \/ RetrieveCheckPrefix
    \/ RetrieveApply

SpecRetrieve == InitRetrieve /\ [][NextRetrieve]_vars

----------------------------------------------------------------------------
(* Evaluator.Dynamic, called for one preemptor after another *)

\* the calls of Dynamic a behaviour makes
MaxCalls == 3

\* the worker replicas the throughput table has figures for, but 0
MaxReplicas == 5

\* what Dynamic may return, and a panic
DynamicSuccess == [status |-> "Success", reason |-> ""]
NothingCanDo == [status |-> "Unschedulable", reason |-> "Nothing can do"]
ScaleOutMPIJob == [status |-> "Unschedulable", reason |-> "Scale-Out MPIJob"]
DynamicPanic == [status |-> "panic", reason |-> ""]

\* the elastic jobs before any scaling: no scale-out annotation
DynamicJobConfigs ==
    LET job(r) == [replicas |-> r, scaleOut |-> NoScaleOut, model |-> "resnet50"]
    IN  { ("tensorflow-mnist-elastic" :> job(r)) : r \in 1..MaxReplicas }
        \cup { ("tensorflow-mnist-elastic" :> job(r)) @@ ("bert-elastic" :> job(b)) :
                 r \in 1..MaxReplicas, b \in {2, 3} }

\* idleGPUsinNodes is the capacity less the requests of every pod listed on
\* the nodes, finished pods included: it can be negative, the requests
\* exceeding the capacity by up to MaxOverRequested
MaxOverRequested == 1
DynamicIdle == (0 - MaxOverRequested)..MaxIdle

\* the preemptor of every call, and the pods a call may find on the node
DynamicPodNow == [creation |-> 1, ann |-> NoAnn]
DynamicPods ==
    { [state |-> "backfilled", creation |-> MaxTime, ann |-> NoAnn, gpus |-> 1, model |-> "VGG16"] }

\* Dynamic is called: the nodes, the request and the idle GPUs are read, and
\* Retrieve starts
CallDynamicWith(pods, idle, request) ==
    /\ rPc' = "start"
    /\ dynPc' = "retrieve"
    /\ podNow' = DynamicPodNow
    /\ clusterPods' = pods
    /\ idleGPUs' = idle
    /\ requestGPUs' = request
    /\ backfilledPods' = <<>>
    /\ retrieveCandidates' = <<>>
    /\ needGPUsTemp' = 0
    /\ applied' = 0
    /\ retracted' = <<>>
    /\ scaledDown' = <<>>
    /\ retrieveOut' = "none"
    /\ lookupErr' = NoLookupErr
    /\ scaledOut' = ""
    /\ dynOut' = <<>>

InitDynamic ==
    /\ RestLess
    /\ RestPick
    /\ RestCandidateList
    /\ RestPreempt
    /\ mpiJobs \in DynamicJobConfigs
    /\ baseline = [j \in DOMAIN mpiJobs |-> mpiJobs[j].replicas]
    /\ calls = 1
    /\ rPc = "start"
    /\ dynPc = "retrieve"
    /\ podNow = DynamicPodNow
    /\ clusterPods \in SeqsUpTo(DynamicPods, 1)
    /\ idleGPUs \in DynamicIdle
    /\ requestGPUs \in 1..MaxRequest
    /\ backfilledPods = <<>>
    /\ retrieveCandidates = <<>>
    /\ needGPUsTemp = 0
    /\ applied = 0
    /\ retracted = <<>>
    /\ scaledDown = <<>>
    /\ retrieveOut = "none"
    /\ lookupErr = NoLookupErr
    /\ scaledOut = ""
    /\ dynOut = <<>>

\* the scheduler calls Dynamic for the next preemptor
CallDynamic ==
    /\ dynPc = "returned"
    /\ dynOut # DynamicPanic
    /\ calls < MaxCalls
    /\ calls' = calls + 1
    /\ \E pods \in SeqsUpTo(DynamicPods, 1), idle \in DynamicIdle, request \in 1..MaxRequest :
          CallDynamicWith(pods, idle, request)
    /\ UNCHANGED <<mpiJobs, baseline, lessVars, pickVars, clVars, preemptVars>>

\* the loop of Dynamic over runningMPIJobs: from the job names js on, with
\* the maximum and the job found so far; panic says that the table was
\* indexed out of range
RECURSIVE ScaleOutLoop(_, _, _, _)
ScaleOutLoop(jobs, js, maxThroughput, name) ==
    IF Len(js) = 0 THEN [panic |-> FALSE, maxThroughput |-> maxThroughput, name |-> name]
    ELSE LET job == jobs[Head(js)]
             usingGPUs == job.replicas + 1
         IN  IF usingGPUs > 5 THEN ScaleOutLoop(jobs, Tail(js), maxThroughput, name)
             ELSE IF ~CanIndex(job.model, usingGPUs) \/ ~CanIndex(job.model, usingGPUs - 1)
             THEN [panic |-> TRUE, maxThroughput |-> maxThroughput, name |-> name]
             ELSE LET gain == Throughput(job.model, usingGPUs) - Throughput(job.model, usingGPUs - 1)
                  IN  IF maxThroughput < gain /\ ~job.scaleOut.present
                      THEN ScaleOutLoop(jobs, Tail(js), gain, Head(js))
                      ELSE ScaleOutLoop(jobs, Tail(js), maxThroughput, name)

\* what Dynamic returns after its loop, whether or not a job was found
ReasonAfterLoop(found) == ScaleOutMPIJob

\* Dynamic after Retrieve has returned; jobGetFails says that GetMPIJob fails
\* in the loop, which leaves a nil MPIJob to be dereferenced
DynamicReturns(jobGetFails) ==
    /\ dynPc = "retrieve"
    /\ rPc = "done"
    /\ dynPc' = "returned"
    /\ IF retrieveOut = "panic"
       THEN dynOut' = DynamicPanic /\ UNCHANGED <<mpiJobs, scaledOut>>
       ELSE IF retrieveOut = "true"
       THEN dynOut' = DynamicSuccess /\ UNCHANGED <<mpiJobs, scaledOut>>
       ELSE IF idleGPUs = 0
       THEN dynOut' = NothingCanDo /\ UNCHANGED <<mpiJobs, scaledOut>>
       ELSE LET loop == ScaleOutLoop(mpiJobs, RunningMPIJobs(mpiJobs), 0, "")
            IN  IF loop.panic \/ (jobGetFails /\ RunningMPIJobs(mpiJobs) # <<>>)
                THEN dynOut' = DynamicPanic /\ UNCHANGED <<mpiJobs, scaledOut>>
                ELSE /\ IF loop.maxThroughput > 0
                        THEN /\ mpiJobs' = MPIJobScaling(mpiJobs, loop.name, 1)
                             /\ scaledOut' = loop.name
                        ELSE UNCHANGED <<mpiJobs, scaledOut>>
                     /\ dynOut' = ReasonAfterLoop(loop.maxThroughput > 0)
    /\ lookupErr' = IF retrieveOut = "false" /\ idleGPUs # 0 /\ jobGetFails
                           /\ RunningMPIJobs(mpiJobs) # <<>>
                     THEN [lookupErr EXCEPT !.job = TRUE]
                     ELSE lookupErr
    /\ UNCHANGED <<rPc, podNow, clusterPods, idleGPUs, requestGPUs, backfilledPods,
                   retrieveCandidates, needGPUsTemp, applied, retracted, scaledDown,
                   retrieveOut, calls, baseline, lessVars, pickVars, clVars, preemptVars>>

NextDynamic ==
    \/ \E podListFails, jobGetFails \in BOOLEAN : RetrieveGather(podListFails, jobGetFails)
    \/ RetrieveCheckPrefix
    \/ RetrieveApply
    \/ \E jobGetFails \in BOOLEAN : DynamicReturns(jobGetFails)
    \/ CallDynamic

SpecDynamic == InitDynamic /\ [][NextDynamic]_vars

----------------------------------------------------------------------------
(* Claims about Retrieve *)

\* the effective timestamp of a pod: retract-check-var when the annotation
\* holds a time, else the creation time
EffectiveTimestamp(pod) ==
    CASE pod.ann.kind = "time" -> pod.ann.t
      [] pod.ann.kind = "absent" -> pod.creation
      [] pod.ann.kind = "malformed" -> pod.creation

\* C5: every pod Retrieve hands to RetractPod is annotated
\* scheduling-state=backfilled and has an effective timestamp strictly later
\* than the preemptor's
C5_RetractsOnlyLaterBackfilled ==
    \A k \in DOMAIN retracted :
        /\ clusterPods[retracted[k]].state = "backfilled"
        /\ EffectiveTimestamp(podNow) < EffectiveTimestamp(clusterPods[retracted[k]])

\* a pod is retracted whose retract-check-var is later than the preemptor's
\* timestamp though it was created no later, while a backfilled pod that is
\* not later than the preemptor stays
C5_RetractedByAnnotation ==
    /\ retrieveOut = "true"
    /\ \E k \in DOMAIN retracted :
          /\ clusterPods[retracted[k]].ann.kind = "time"
          /\ clusterPods[retracted[k]].creation <= EffectiveTimestamp(podNow)
    /\ \E i \in DOMAIN clusterPods :
          /\ clusterPods[i].state = "backfilled"
          /\ EffectiveTimestamp(clusterPods[i]) <= EffectiveTimestamp(podNow)
          /\ \A k \in DOMAIN retracted : retracted[k] # i

\* the GPUs of the pods retracted and of the scale-downs made
RECURSIVE RetractedGpus(_)
RetractedGpus(n) ==
    IF n = 0 THEN 0 ELSE RetractedGpus(n - 1) + clusterPods[retracted[n]].gpus
RECURSIVE ScaledDownGpus(_)
ScaledDownGpus(n) ==
    IF n = 0 THEN 0 ELSE ScaledDownGpus(n - 1) - scaledDown[n].scaleNum
ActedGpus == RetractedGpus(Len(retracted)) + ScaledDownGpus(Len(scaledDown))

\* C6: when Retrieve returns success the GPUs of the pods retracted and the
\* jobs scaled down sum to at least requestGPUs - idleGPUs; when it returns
\* failure it has retracted no pod and scaled no job, and it returns failure
\* when all the sorted candidates together do not reach the deficit
C6_DeficitCovered ==
    /\ retrieveOut = "true" => ActedGpus >= requestGPUs - idleGPUs
    /\ retrieveOut = "false" => retracted = <<>> /\ scaledDown = <<>>
    /\ ( /\ rPc = "done"
         /\ Len(retrieveCandidates) # 0
         /\ GpusOfPrefix(retrieveCandidates, Len(retrieveCandidates)) < requestGPUs - idleGPUs )
       => retrieveOut = "false"

\* Retrieve returns success after a retraction and a scale-down that together
\* cover a deficit neither covers alone
C6_CoveredByTwo ==
    /\ retrieveOut = "true"
    /\ Len(retracted) = 1
    /\ Len(scaledDown) = 1
    /\ requestGPUs - idleGPUs = 2
    /\ ActedGpus = 2

----------------------------------------------------------------------------
(* Claims about the scale-down actions of Retrieve *)

\* the scale-down candidates the second loop of Retrieve has acted on
AppliedScaleDowns ==
    SelectSeq(SubSeq(retrieveCandidates, 1, applied), LAMBDA c : c[1] # 0)

\* the elastic job the scale-down candidate c represents
JobOfCandidate(c) == ScaleOutMPIJobs(mpiJobs)[c[2]]

\* the GPUs of the candidates of cs that represent the job j
RECURSIVE GpusFor(_, _)
GpusFor(cs, j) ==
    IF Len(cs) = 0 THEN 0
    ELSE GpusFor(Tail(cs), j) + (IF JobOfCandidate(Head(cs)) = j THEN Head(cs)[3] ELSE 0)

\* the worker replicas the job j had when Retrieve was called
ReplicasAtCall(j) ==
    IF mpiJobs[j].model = "resnet101" THEN 4
    ELSE IF mpiJobs[j].scaleOut.present THEN 3 ELSE 2

\* C16 (as stated): every scale-down Retrieve applies changes the worker
\* replicas of the elastic job its selected candidate represents, by minus
\* the candidate's GPU count, and leaves the replicas of every other elastic
\* job as they were
C16_ScalesDownSelectedJob ==
    rPc \in {"apply", "done"} =>
        /\ \A k \in DOMAIN scaledDown :
              /\ scaledDown[k].job = JobOfCandidate(AppliedScaleDowns[k])
              /\ scaledDown[k].scaleNum = -AppliedScaleDowns[k][3]
        /\ \A j \in DOMAIN mpiJobs :
              mpiJobs[j].replicas = ReplicasAtCall(j) - GpusFor(AppliedScaleDowns, j)

----------------------------------------------------------------------------
(* Claims about Dynamic *)

\* a call of Dynamic has returned
DynamicReturned == dynPc = "returned" /\ dynOut # DynamicPanic

\* the call retracted no pod, scaled no job down and scaled no job out
DidNothing == retracted = <<>> /\ scaledDown = <<>> /\ scaledOut = ""

\* C15 (as stated): a call of Dynamic that neither retracts a pod nor scales
\* a job down nor scales a job out returns Unschedulable with the reason
\* "Nothing can do"; the reason "Scale-Out MPIJob" is returned only by calls
\* that scaled an elastic job out by one replica
C15_ReasonTellsWhatWasDone ==
    DynamicReturned =>
        /\ DidNothing => dynOut = [status |-> "Unschedulable", reason |-> "Nothing can do"]
        /\ dynOut.reason = "Scale-Out MPIJob" => scaledOut # ""

\* what does hold of the code: a call that did nothing returns Unschedulable,
\* with "Nothing can do" when no GPU is idle and with "Scale-Out MPIJob" when
\* one is; a call that scaled a job out returns "Scale-Out MPIJob"
C15_ReasonByIdleGPUs ==
    DynamicReturned =>
        /\ DidNothing =>
              dynOut = [status |-> "Unschedulable",
                        reason |-> IF idleGPUs = 0 THEN "Nothing can do" ELSE "Scale-Out MPIJob"]
        /\ scaledOut # "" => dynOut = [status |-> "Unschedulable", reason |-> "Scale-Out MPIJob"]

\* Dynamic returned "Scale-Out MPIJob" and did nothing
C15_ScaleOutReasonWithoutScaleOut ==
    /\ DynamicReturned
    /\ DidNothing
    /\ dynOut.reason = "Scale-Out MPIJob"

\* the scale-out annotation of the job j read as a decimal integer: absent is 0
ScaleOutCount(j) == IF mpiJobs[j].scaleOut.present THEN mpiJobs[j].scaleOut.n ELSE 0

\* C17 (as stated): after any sequence of calls of Dynamic the worker
\* replicas of every elastic job that started in 1..5 are in 1..5, and every
\* index into the throughput table (replicas, replicas - scaleOut,
\* replicas + 1 when a scale-out is weighed) is in 0..5
C17_ReplicasStayInRange ==
    \A j \in DOMAIN mpiJobs :
        /\ mpiJobs[j].replicas \in 1..MaxReplicas
        /\ mpiJobs[j].scaleOut.present =>
              (mpiJobs[j].replicas - ScaleOutCount(j)) \in 0..MaxReplicas

\* what does hold of the code: no scale-out takes the replicas above 5
C17_ReplicasAtMostFive ==
    \A j \in DOMAIN mpiJobs : mpiJobs[j].replicas <= MaxReplicas

\* C18 (as stated): after any sequence of scale-outs and scale-downs the
\* scale-out annotation of an elastic job, read as a decimal integer, is the
\* number of worker replicas added to its baseline, so that a job is never
\* scaled down by more than it was scaled out
C18_AnnotationCountsAddedReplicas ==
    \A j \in DOMAIN mpiJobs :
        /\ ScaleOutCount(j) = mpiJobs[j].replicas - baseline[j]
        /\ mpiJobs[j].replicas >= baseline[j]

----------------------------------------------------------------------------
(* Claims about the prefix and the order of Retrieve, and the scale-out of
   Dynamic *)

\* gpuDeficit: max(0, requestGPUs - idleGPUs)
GpuDeficit == IF requestGPUs - idleGPUs > 0 THEN requestGPUs - idleGPUs ELSE 0

\* the candidates after the first `applied` ones are not acted on, and those
\* acted on are the first `applied` ones, in order
ActedOnPrefix ==
    /\ Len(retracted) + Len(scaledDown) = applied
    /\ applied <= Len(retrieveCandidates)
    /\ \A k \in 1..Len(retracted) :
          \E n \in 1..applied : /\ retrieveCandidates[n][1] = 0
                                /\ backfilledPods[retrieveCandidates[n][2]] = retracted[k]

\* C28 (as stated): the candidates Retrieve acts on are the shortest prefix
\* of the sorted list whose GPUs reach max(0, requestGPUs - idleGPUs); no
\* later candidate is acted on, and with a deficit of zero no pod is
\* retracted and no job scaled down
C28_ShortestPrefix ==
    retrieveOut = "true" =>
        /\ ActedOnPrefix
        /\ GpusOfPrefix(retrieveCandidates, applied) >= GpuDeficit
        /\ \A n \in 0..(applied - 1) : GpusOfPrefix(retrieveCandidates, n) < GpuDeficit
        /\ GpuDeficit = 0 => (retracted = <<>> /\ scaledDown = <<>>)

\* what holds of the code: the candidates acted on are the shortest prefix
\* of at least one candidate whose GPUs reach requestGPUs - idleGPUs
C28_ShortestNonEmptyPrefix ==
    retrieveOut = "true" =>
        /\ ActedOnPrefix
        /\ applied >= 1
        /\ GpusOfPrefix(retrieveCandidates, applied) >= requestGPUs - idleGPUs
        /\ \A n \in 1..(applied - 1) :
              GpusOfPrefix(retrieveCandidates, n) < requestGPUs - idleGPUs

\* Retrieve returns success after retracting a pod though the idle GPUs
\* cover the request
C28_RetractsWithoutDeficit ==
    /\ retrieveOut = "true"
    /\ requestGPUs - idleGPUs = 0
    /\ Len(retracted) = 1

\* the cost of the candidate c before int() drops its fraction: the table's
\* figure of a backfilled pod, s1 - s2 of a scaled-out job with the replicas
\* it had when Retrieve was called
CostOfCandidate(c) ==
    IF c[1] = 0
    THEN LET pod == clusterPods[backfilledPods[c[2]]]
         IN  Throughput(pod.model, pod.gpus)
    ELSE LET j == JobOfCandidate(c)
         IN  Throughput(mpiJobs[j].model, ReplicasAtCall(j))
             - Throughput(mpiJobs[j].model, ReplicasAtCall(j) - mpiJobs[j].scaleOut.n)

\* C29 (as stated): the candidates are processed by ascending GPU count,
\* and of two candidates with equal GPUs the one with the strictly smaller
\* cost, the table's figure or the difference of two figures, comes first
C29_AscendingGpusThenCost ==
    \A i, j \in DOMAIN retrieveCandidates :
        i < j =>
            /\ retrieveCandidates[i][3] <= retrieveCandidates[j][3]
            /\ retrieveCandidates[i][3] = retrieveCandidates[j][3] =>
                   CostOfCandidate(retrieveCandidates[i])
                       <= CostOfCandidate(retrieveCandidates[j])

\* what holds of the code: ascending GPU count, then ascending int(cost),
\* and candidates equal in both stay in the order they were gathered in
C29_AscendingGpusThenIntCost ==
    \A i, j \in DOMAIN retrieveCandidates :
        i < j =>
            /\ retrieveCandidates[i][3] <= retrieveCandidates[j][3]
            /\ retrieveCandidates[i][3] = retrieveCandidates[j][3] =>
                   /\ retrieveCandidates[i][4] <= retrieveCandidates[j][4]
                   /\ retrieveCandidates[i][4] = IntOf(CostOfCandidate(retrieveCandidates[i]))

\* Retrieve has acted on one scale-down candidate only, and a candidate of
\* as many GPUs and of strictly smaller cost was left alone
C29_CostlierActedOnFirst ==
    /\ retrieveOut = "true"
    /\ applied = 1
    /\ Len(scaledDown) = 1
    /\ \E n \in 2..Len(retrieveCandidates) :
          /\ retrieveCandidates[n][3] = retrieveCandidates[1][3]
          /\ CostOfCandidate(retrieveCandidates[n]) < CostOfCandidate(retrieveCandidates[1])

\* the gain of one more worker for the job j: T[replicas + 1] - T[replicas]
GainOf(j) ==
    Throughput(mpiJobs[j].model, mpiJobs[j].replicas + 1)
    - Throughput(mpiJobs[j].model, mpiJobs[j].replicas)

\* the running elastic jobs Phase C may scale out: no scale-out annotation,
\* replicas + 1 at most 5, and a gain above 0
CanScaleOut ==
    { j \in DOMAIN mpiJobs :
        /\ ~mpiJobs[j].scaleOut.present
        /\ mpiJobs[j].replicas + 1 <= MaxReplicas
        /\ CanIndex(mpiJobs[j].model, mpiJobs[j].replicas + 1)
        /\ CanIndex(mpiJobs[j].model, mpiJobs[j].replicas)
        /\ GainOf(j) > 0 }

\* Dynamic, after Retrieve, scales the job j out by one worker and no other
\* job, and j is a job of CanScaleOut of maximum gain
ScalesOutBest(j) ==
    /\ j \in CanScaleOut
    /\ \A k \in CanScaleOut : GainOf(k) <= GainOf(j)
    /\ scaledOut' = j
    /\ mpiJobs'[j].replicas = mpiJobs[j].replicas + 1
    /\ \A k \in DOMAIN mpiJobs \ {j} : mpiJobs'[k] = mpiJobs[k]

\* what a return of Dynamic does about scaling out, given whether the idle
\* GPUs allow it
ScaleOutOnlyWhen(idleAllows) ==
    (dynPc = "retrieve" /\ dynPc' = "returned") =>
        /\ mpiJobs' # mpiJobs => /\ retrieveOut = "false"
                                 /\ idleAllows
                                 /\ \E j \in DOMAIN mpiJobs : ScalesOutBest(j)
        /\ mpiJobs' = mpiJobs => scaledOut' = ""
        /\ retrieveOut = "true" => mpiJobs' = mpiJobs

\* C30 (as stated): Dynamic scales a job out only when Retrieve has failed
\* and idleGPUs > 0; it scales out at most one job per call, by one worker,
\* a job of maximum gain above 0 among the running jobs with no scale-out
\* annotation and replicas + 1 at most 5; after a successful Retrieve it
\* scales no job out
C30_ScalesOutBestWhenIdle == [][ScaleOutOnlyWhen(idleGPUs > 0)]_vars

\* what holds of the code: the same, for idleGPUs other than 0
C30_ScalesOutBestWhenIdleNotZero == [][ScaleOutOnlyWhen(idleGPUs # 0)]_vars

\* Dynamic has scaled a job out with fewer than no idle GPUs
C30_ScaledOutWithNegativeIdle ==
    /\ dynPc = "returned"
    /\ scaledOut # ""
    /\ idleGPUs < 0

\* Dynamic has scaled out the second job listed, whose gain is the greater
C30_ScaledOutSecondJob ==
    /\ dynPc = "returned"
    /\ scaledOut = "bert-elastic"
    /\ "tensorflow-mnist-elastic" \in DOMAIN mpiJobs
    /\ ~mpiJobs["tensorflow-mnist-elastic"].scaleOut.present
    /\ mpiJobs["tensorflow-mnist-elastic"].replicas + 1 <= MaxReplicas

----------------------------------------------------------------------------
(* Claims about failed lookups, the dry run's bookkeeping, the names of
   pending pods and the status patch *)

\* C31 (as stated): a call of Retrieve in which listing the pods of the node
\* or getting an elastic job has failed still returns true or false, and a
\* call of Dynamic in which a lookup has failed returns a result
C31_FailedLookupSkipped ==
    (lookupErr.pods \/ lookupErr.job) =>
        /\ rPc = "done" => retrieveOut \in {"true", "false"}
        /\ dynPc = "returned" => dynOut # DynamicPanic

\* what holds of the code: when only the pod list has failed, the table has
\* figures for every scaled-out job and the job Retrieve scales down exists,
\* no pod is a candidate and Retrieve returns true or false
C31_FailedPodListSkipped ==
    (/\ rPc = "done"
     /\ lookupErr.pods /\ ~lookupErr.job
     /\ \A j \in DOMAIN mpiJobs :
           mpiJobs[j].scaleOut.present => mpiJobs[j].model \in DOMAIN scalableModelData
     /\ ScaleOutMPIJobs(mpiJobs) # <<>> => "tensorflow-mnist-elastic" \in DOMAIN mpiJobs) =>
        /\ retrieveOut \in {"true", "false"}
        /\ backfilledPods = <<>>
        /\ retracted = <<>>

\* getting a job failed and Retrieve panicked, though the table has figures
\* for every pod and every job
C31_PanicsOnFailedJobLookup ==
    /\ rPc = "done"
    /\ retrieveOut = "panic"
    /\ lookupErr = [pods |-> FALSE, job |-> TRUE]
    /\ \A i \in DOMAIN clusterPods : clusterPods[i].model # ""

\* the worker pool of the dry run has drained
Drained ==
    /\ phase = "dryrun"
    /\ InProgress = {}
    /\ cancelled \/ nextPiece = Len(potentialNodes)

\* the names of the candidates installed in the list cl
InstalledIn(cl) == { cl.items[k].name : k \in DOMAIN cl.items }

\* C32: once the worker pool has drained, every evaluated node has one
\* outcome: either it was counted by add() of the candidate list of its
\* class, installed or discarded as overflow, and has no status, or it has
\* its own status, which is not Success, and is in no candidate list; no
\* status is lost, and errs holds the nodes of the Error statuses, once each
C32_OneOutcomePerNode ==
    Drained =>
        LET counted == DoneWithCandidate(TRUE) \cup DoneWithCandidate(FALSE)
        IN  /\ nonViolatingCandidates.adds = Cardinality(DoneWithCandidate(TRUE))
            /\ violatingCandidates.adds = Cardinality(DoneWithCandidate(FALSE))
            /\ InstalledIn(nonViolatingCandidates) \subseteq { NodeOf(i) : i \in DoneWithCandidate(TRUE) }
            /\ InstalledIn(violatingCandidates) \subseteq { NodeOf(i) : i \in DoneWithCandidate(FALSE) }
            /\ \A i \in DoneWithCandidate(TRUE) :
                  \/ NodeOf(i) \in InstalledIn(nonViolatingCandidates)
                  \/ nonViolatingCandidates.adds > numCandidates
            /\ \A i \in DoneWithCandidate(FALSE) :
                  \/ NodeOf(i) \in InstalledIn(violatingCandidates)
                  \/ violatingCandidates.adds > numCandidates
            /\ DOMAIN nodeStatuses = { NodeOf(i) : i \in Evaluated \ counted }
            /\ \A i \in Evaluated \ counted :
                  LET o == outcome[NodeOf(i)]
                      st == nodeStatuses[NodeOf(i)]
                  IN  /\ st # "Success"
                      /\ o.status # "Success" => st = o.status
            /\ { errs[k] : k \in DOMAIN errs } = { n \in DOMAIN nodeStatuses : nodeStatuses[n] = "Error" }
            /\ \A k, l \in DOMAIN errs : errs[k] = errs[l] => k = l

\* the pool has drained after two workers evaluated three nodes: one gave a
\* candidate, one an Unschedulable status and one an Error status, the
\* last two recorded while another task was running
C32_ThreeOutcomes ==
    /\ Drained
    /\ parallelism = Workers
    /\ Cardinality(Evaluated) = 3
    /\ Cardinality(DoneWithCandidate(TRUE) \cup DoneWithCandidate(FALSE)) = 1
    /\ \E n, m \in DOMAIN nodeStatuses :
          nodeStatuses[n] = "Unschedulable" /\ nodeStatuses[m] = "Error"
    /\ Len(errs) = 1

\* C33 (as stated): Less returns a boolean for every pair of pending pods,
\* whatever their names
C33_LessAlwaysReturns ==
    lessOut # "none" => lessOut \in {"true", "false"}

\* what holds of the code: Less returns a boolean when the names of both
\* pending pods have a "-", or end in "launcher", and so has the name of
\* every pod of my-ns bound to a node
C33_ReturnsOnSeparatedNames ==
    (/\ lessOut # "none"
     /\ ~checkMPIJob(qa.name).panic
     /\ ~checkMPIJob(qb.name).panic
     /\ \A i \in DOMAIN running :
           running[i].ns = "my-ns" => ~checkMPIJob(running[i].name).panic) =>
        lessOut \in {"true", "false"}

\* Less has panicked on a pending pod whose name has no "-", no pod being
\* bound to a node
C33_PanicsOnNameWithoutSeparator ==
    /\ lessOut = "panic"
    /\ Len(qa.name) = 1
    /\ Len(qb.name) = 2
    /\ running = <<>>

\* the victim of the best candidate with the id v
VictimOf(v) ==
    LET ps == bestCandidate.victims.pods
    IN  ps[CHOOSE k \in DOMAIN ps : ps[k].id = v]

\* C34 (as stated): the status patched onto a victim is the victim's own
\* status with the DisruptionTarget condition added, every other field as
\* it was, nothing of it taken from the preemptor's status
C34_PatchKeepsVictimStatus ==
    \A v \in DOMAIN victimStatus :
        victimStatus[v] = UpdatePodCondition(StatusOfVictim(VictimOf(v)), DisruptionTarget)

\* what holds of the code: the status patched onto a victim is the
\* preemptor's status with the DisruptionTarget condition added, and the
\* victims patched are those the patch succeeded for
C34_PatchCopiesPreemptorStatus ==
    /\ DOMAIN victimStatus = patched
    /\ \A v \in DOMAIN victimStatus :
          /\ victimStatus[v].phase = PreemptorStatus.phase
          /\ victimStatus[v].startTime = PreemptorStatus.startTime
          /\ victimStatus[v].conditions = PreemptorStatus.conditions \cup {DisruptionTarget}

\* a running victim has been patched and deleted, and its patched status
\* says that it is pending and not scheduled
C34_RunningVictimPatchedPending ==
    /\ phase = "prepare"
    /\ \E v \in patched \cap evicted :
          /\ victimStatus[v].phase = "Pending"
          /\ <<"PodScheduled", "False">> \in victimStatus[v].conditions
          /\ <<"Ready", "True">> \notin victimStatus[v].conditions

=============================================================================
